---- MODULE Spec2Model ----
(***************************************************************************)
(* Decision-and-settlement core of the 15-minute binary-market trader:     *)
(* guardrail state (src/src/guardrails.ts), trade ledger (trade-log part   *)
(* of src/src/guardrails.ts), execution orchestrator (src/src/executor.ts),*)
(* tick driver (src/unnamed/part_002) and redemption sweeper               *)
(* (src/src/redeemer.ts).                                                  *)
(*                                                                         *)
(* Money is counted in cents and prices in cents per share, so that the    *)
(* products and sums of the code are exact integers.  Time is counted in   *)
(* half hours: Date.now() is the variable now, one hour is UnitsPerHour    *)
(* units and the UTC date of a time t is t \div UnitsPerDay.               *)
(***************************************************************************)
EXTENDS Integers, Sequences, FiniteSets, TLC

VARIABLES
    now,        \* Date.now(), in half hours
    state,      \* guardrails.ts: let state: GuardrailState
    ledger,     \* trades.jsonl: the sequence of lines of the file
    config,     \* the TraderConfig the process was started with
    ticks,      \* in-flight tick() calls of the tick driver, by slot
    orders,     \* order client: BUY submissions received, per window
    sweeps,     \* in-flight runRedemptionSweep() calls, by slot
    lastCall,   \* the last operation: its name, arguments and result
    succeeded,  \* windows for which some executeBuy has returned success
    service     \* the process and its timers: tickTimer, redeemTimer, ...

vars == <<now, state, ledger, config, ticks, orders, sweeps, lastCall,
          succeeded, service>>

----------------------------------------------------------------------------
(* Bounds of the model *)

NumWindows == 2
MaxTicks == 2
MaxSweeps == 2
StartTime == 45
MaxNow == 48
MaxTrades == 2
MaxOrders == 2
MaxLedger == 6
MaxLines == 3
MaxOutcomes == 3

(* A take-profit threshold, in percent, above every gain the inputs allow *)
UnreachableTakeProfit == 1000

(* Program constants, in the model's units *)

UnitsPerHour == 2
UnitsPerDay == 24 * UnitsPerHour
AutoKillLoss == 2500

Windows == 1 .. NumWindows
TickIds == 1 .. MaxTicks
SweepIds == 1 .. MaxSweeps

UtcDay(t) == t \div UnitsPerDay

Abs(x) == IF x < 0 THEN -x ELSE x

RECURSIVE SumSet(_, _)
SumSet(f, S) ==
    IF S = {} THEN 0
    ELSE LET k == CHOOSE x \in S : TRUE
         IN  f[k] + SumSet(f, S \ {k})

RECURSIVE FilterSeq(_, _)
FilterSeq(sq, lo) ==
    IF sq = <<>> THEN <<>>
    ELSE IF Head(sq) > lo THEN <<Head(sq)>> \o FilterSeq(Tail(sq), lo)
         ELSE FilterSeq(Tail(sq), lo)

----------------------------------------------------------------------------
(* Configurations and inputs *)

Configs ==
    [enabled : BOOLEAN, dryRun : BOOLEAN,
     maxOrderSize : {1000}, maxPositionSize : {2000},
     maxDailyLoss : {1000}, maxTradesPerHour : {2},
     minEntryPrice : {60}, entryWindowMinStart : {5}, entryWindowMinEnd : {10},
     takeProfitPct : {80}]

TokenOf(w, o) == <<w, o>>

MkPosition(w, o, price, size) ==
    [conditionId |-> w, tokenId |-> TokenOf(w, o), outcome |-> o,
     entryPrice |-> price, size |-> size, costBasis |-> size * price,
     marketSlug |-> w]

ApiPositions ==
    { MkPosition(w, "Up", 50, 10 + 10 * w) : w \in Windows }

ApiCosts == {600, 1500}

ApiProceeds == {0, 1500}

----------------------------------------------------------------------------
(* Guardrail state: src/src/guardrails.ts, lines 79-250 *)

createFreshState(t) ==
    [dailyPnl |-> 0, dailyTradeCount |-> 0, hourlyTrades |-> <<>>,
     totalExposure |-> 0, openPositions |-> <<>>, killswitch |-> FALSE,
     lastResetDay |-> UtcDay(t)]

maybeResetDailyClearsKill(s, t) ==
    IF UtcDay(t) # s.lastResetDay
    THEN [s EXCEPT !.dailyPnl = 0, !.dailyTradeCount = 0,
                   !.hourlyTrades = <<>>, !.lastResetDay = UtcDay(t),
                   !.killswitch = FALSE]
    ELSE s

maybeResetDailyAlways(s, t) ==
    [s EXCEPT !.dailyPnl = 0, !.dailyTradeCount = 0,
              !.hourlyTrades = <<>>, !.lastResetDay = UtcDay(t)]

maybeResetDaily(s, t) ==
    IF UtcDay(t) # s.lastResetDay
    THEN [s EXCEPT !.dailyPnl = 0, !.dailyTradeCount = 0,
                   !.hourlyTrades = <<>>, !.lastResetDay = UtcDay(t)]
    ELSE s

pruneHourlyTradesKeepsHourOld(s, t) ==
    [s EXCEPT !.hourlyTrades =
                  FilterSeq(s.hourlyTrades, t - UnitsPerHour - 1)]

pruneHourlyTrades(s, t) ==
    [s EXCEPT !.hourlyTrades = FilterSeq(s.hourlyTrades, t - UnitsPerHour)]

Denied(s, why) == [state |-> s, allowed |-> FALSE, reason |-> why]

checkPreTradeEnabledFirst(s, cfg, cost, t) ==
    LET s2 == pruneHourlyTrades(maybeResetDaily(s, t), t)
    IN  IF ~cfg.enabled THEN Denied(s2, "DISABLED")
        ELSE IF s2.killswitch THEN Denied(s2, "KILLSWITCH")
        ELSE IF cost > cfg.maxOrderSize THEN Denied(s2, "ORDER_SIZE")
        ELSE IF s2.totalExposure + cost > cfg.maxPositionSize
             THEN Denied(s2, "MAX_POSITION")
        ELSE IF Abs(s2.dailyPnl) >= cfg.maxDailyLoss /\ s2.dailyPnl < 0
             THEN Denied(s2, "DAILY_LOSS")
        ELSE IF Len(s2.hourlyTrades) >= cfg.maxTradesPerHour
             THEN Denied(s2, "HOURLY_LIMIT")
        ELSE [state |-> s2, allowed |-> TRUE, reason |-> "none"]

checkPreTradeLossFirst(s, cfg, cost, t) ==
    LET s2 == pruneHourlyTrades(maybeResetDaily(s, t), t)
    IN  IF s2.killswitch THEN Denied(s2, "KILLSWITCH")
        ELSE IF ~cfg.enabled THEN Denied(s2, "DISABLED")
        ELSE IF cost > cfg.maxOrderSize THEN Denied(s2, "ORDER_SIZE")
        ELSE IF Abs(s2.dailyPnl) >= cfg.maxDailyLoss /\ s2.dailyPnl < 0
             THEN Denied(s2, "DAILY_LOSS")
        ELSE IF s2.totalExposure + cost > cfg.maxPositionSize
             THEN Denied(s2, "MAX_POSITION")
        ELSE IF Len(s2.hourlyTrades) >= cfg.maxTradesPerHour
             THEN Denied(s2, "HOURLY_LIMIT")
        ELSE [state |-> s2, allowed |-> TRUE, reason |-> "none"]

checkPreTrade(s, cfg, cost, t) ==
    LET s2 == pruneHourlyTrades(maybeResetDaily(s, t), t)
    IN  IF s2.killswitch THEN Denied(s2, "KILLSWITCH")
        ELSE IF ~cfg.enabled THEN Denied(s2, "DISABLED")
        ELSE IF cost > cfg.maxOrderSize THEN Denied(s2, "ORDER_SIZE")
        ELSE IF s2.totalExposure + cost > cfg.maxPositionSize
             THEN Denied(s2, "MAX_POSITION")
        ELSE IF Abs(s2.dailyPnl) >= cfg.maxDailyLoss /\ s2.dailyPnl < 0
             THEN Denied(s2, "DAILY_LOSS")
        ELSE IF Len(s2.hourlyTrades) >= cfg.maxTradesPerHour
             THEN Denied(s2, "HOURLY_LIMIT")
        ELSE [state |-> s2, allowed |-> TRUE, reason |-> "none"]

MapSet(m, k, v) == [x \in (DOMAIN m) \cup {k} |-> IF x = k THEN v ELSE m[x]]

MapDelete(m, k) == [x \in (DOMAIN m) \ {k} |-> m[x]]

recordTrade(s, position, t) ==
    [s EXCEPT !.hourlyTrades = Append(s.hourlyTrades, t),
              !.dailyTradeCount = s.dailyTradeCount + 1,
              !.totalExposure = s.totalExposure + position.costBasis,
              !.openPositions =
                  MapSet(s.openPositions, position.conditionId, position)]

recordCloseKillsOnAnyLoss(s, conditionId, proceeds) ==
    IF conditionId \in DOMAIN s.openPositions
    THEN LET pos == s.openPositions[conditionId]
             pnl == proceeds - pos.costBasis
             s2  == [s EXCEPT !.dailyPnl = s.dailyPnl + pnl,
                              !.totalExposure = s.totalExposure - pos.costBasis,
                              !.openPositions =
                                  MapDelete(s.openPositions, conditionId)]
         IN  IF s2.dailyPnl < 0
             THEN [s2 EXCEPT !.killswitch = TRUE]
             ELSE s2
    ELSE s

recordCloseKeepsExposure(s, conditionId, proceeds) ==
    IF conditionId \in DOMAIN s.openPositions
    THEN LET pos == s.openPositions[conditionId]
             pnl == proceeds - pos.costBasis
             s2  == [s EXCEPT !.dailyPnl = s.dailyPnl + pnl,
                              !.openPositions =
                                  MapDelete(s.openPositions, conditionId)]
         IN  IF s2.dailyPnl < 0 /\ Abs(s2.dailyPnl) >= AutoKillLoss
             THEN [s2 EXCEPT !.killswitch = TRUE]
             ELSE s2
    ELSE s

recordClose(s, conditionId, proceeds) ==
    IF conditionId \in DOMAIN s.openPositions
    THEN LET pos == s.openPositions[conditionId]
             pnl == proceeds - pos.costBasis
             s2  == [s EXCEPT !.dailyPnl = s.dailyPnl + pnl,
                              !.totalExposure = s.totalExposure - pos.costBasis,
                              !.openPositions =
                                  MapDelete(s.openPositions, conditionId)]
         IN  IF s2.dailyPnl < 0 /\ Abs(s2.dailyPnl) >= AutoKillLoss
             THEN [s2 EXCEPT !.killswitch = TRUE]
             ELSE s2
    ELSE s

activateKillswitch(s) == [s EXCEPT !.killswitch = TRUE]

resetKillswitch(s) == [s EXCEPT !.killswitch = FALSE]

getGuardrailState(s, t) == pruneHourlyTrades(maybeResetDaily(s, t), t)

resetState(t) == createFreshState(t)

----------------------------------------------------------------------------
(* Trade ledger: src/src/guardrails.ts, lines 252-321 *)

BuyEntry(slug, outcome, price, size, cost, orderId) ==
    [type |-> "buy", slug |-> slug, outcome |-> outcome, price |-> price,
     size |-> size, cost |-> cost, orderId |-> orderId]

ResolutionEntry(slug, resolved) ==
    [type |-> "resolution", slug |-> slug, resolved |-> resolved]

logBuyRewrites(lines, slug, outcome, price, size, cost, orderId) ==
    <<BuyEntry(slug, outcome, price, size, cost, orderId)>>

logBuy(lines, slug, outcome, price, size, cost, orderId) ==
    Append(lines, BuyEntry(slug, outcome, price, size, cost, orderId))

logResolutionAsBuy(lines, slug, resolved) ==
    Append(lines, BuyEntry(slug, resolved, 0, 0, 0, "dry-run"))

logResolution(lines, slug, resolved) ==
    Append(lines, ResolutionEntry(slug, resolved))

(* A line of the file is a record written by logBuy or logResolution, the  *)
(* empty line (type "empty"), or text on which JSON.parse throws (type     *)
(* "corrupt").  hasEntry scans from the last line backward; the exception  *)
(* of JSON.parse is caught outside the loop, so it ends the scan.          *)
EmptyLine == [type |-> "empty"]

CorruptLine == [type |-> "corrupt"]

RECURSIVE ScanBack(_, _, _, _)
ScanBack(lines, i, type, slug) ==
    IF i < 1 THEN FALSE
    ELSE IF lines[i].type = "empty" THEN ScanBack(lines, i - 1, type, slug)
    ELSE IF lines[i].type = "corrupt" THEN FALSE
    ELSE IF lines[i].type = type /\ lines[i].slug = slug THEN TRUE
    ELSE ScanBack(lines, i - 1, type, slug)

hasEntry(lines, type, slug) ==
    IF lines = <<>> THEN FALSE
    ELSE ScanBack(lines, Len(lines), type, slug)

hasBoughtSlugLastLine(lines, slug) ==
    /\ Len(lines) > 0
    /\ lines[Len(lines)].type = "buy"
    /\ lines[Len(lines)].slug = slug

hasBoughtSlug(lines, slug) == hasEntry(lines, "buy", slug)

hasResolutionWrongKind(lines, slug) == hasEntry(lines, "buy", slug)

hasResolution(lines, slug) == hasEntry(lines, "resolution", slug)

CountEntries(lines, type, slug) ==
    Cardinality({ i \in 1 .. Len(lines) :
                    /\ lines[i].type = type
                    /\ lines[i].slug = slug })

----------------------------------------------------------------------------
(* Market snapshots: src/unnamed/part_000.  minutesRemaining is            *)
(* secondsRemaining / 60; the model keeps secondsRemaining and compares    *)
(* it with 60 times the bound in minutes.                                  *)

MkMarket(w, secs, priceUp, priceDown, closed) ==
    [conditionId |-> w, slug |-> w, secondsRemaining |-> secs,
     outcomes |-> <<[tokenId |-> TokenOf(w, "Up"), outcome |-> "Up",
                     price |-> priceUp],
                    [tokenId |-> TokenOf(w, "Down"), outcome |-> "Down",
                     price |-> priceDown]>>,
     closed |-> closed]

RECURSIVE ReduceBestLastWins(_, _, _)
ReduceBestLastWins(outs, i, best) ==
    IF i > Len(outs) THEN best
    ELSE ReduceBestLastWins(outs, i + 1,
                            IF outs[i].price >= best.price THEN outs[i]
                            ELSE best)

RECURSIVE ReduceBest(_, _, _)
ReduceBest(outs, i, best) ==
    IF i > Len(outs) THEN best
    ELSE ReduceBest(outs, i + 1,
                    IF outs[i].price > best.price THEN outs[i] ELSE best)

NoOutcome == [tokenId |-> <<0, "none">>, outcome |-> "none", price |-> 0]

getLeadingOutcome(market) ==
    IF Len(market.outcomes) = 0 THEN NoOutcome
    ELSE ReduceBest(market.outcomes, 2, market.outcomes[1])

isInEntryWindowOpen(market, minStart, minEnd) ==
    /\ market.secondsRemaining > 60 * minStart
    /\ market.secondsRemaining < 60 * minEnd

isInEntryWindow(market, minStart, minEnd) ==
    /\ market.secondsRemaining >= 60 * minStart
    /\ market.secondsRemaining <= 60 * minEnd

----------------------------------------------------------------------------
(* Strategy evaluator: src/unnamed/part_003 (the variant with take-profit; *)
(* src/src/strategy.ts differs in evaluateExit only)                       *)

Wait(why) == [signal |-> "WAIT", reason |-> why]

Hold(why) == [signal |-> "HOLD", reason |-> why]

evaluateEntryRoundsUp(market, cfg) ==
    IF market.closed THEN Wait("CLOSED")
    ELSE IF ~isInEntryWindow(market, cfg.entryWindowMinStart,
                             cfg.entryWindowMinEnd)
    THEN IF market.secondsRemaining > 60 * cfg.entryWindowMinEnd
         THEN Wait("TOO_EARLY")
         ELSE Wait("TOO_LATE")
    ELSE LET leader == getLeadingOutcome(market)
         IN  IF leader = NoOutcome THEN Wait("NO_OUTCOMES")
             ELSE IF leader.price < cfg.minEntryPrice
             THEN Wait("BELOW_MIN_ENTRY")
             ELSE [signal |-> "BUY", outcome |-> leader,
                   reason |-> "ENTRY",
                   suggestedSize |->
                       (cfg.maxOrderSize + leader.price - 1)
                           \div leader.price,
                   suggestedPrice |-> leader.price]

evaluateEntry(market, cfg) ==
    IF market.closed THEN Wait("CLOSED")
    ELSE IF ~isInEntryWindow(market, cfg.entryWindowMinStart,
                             cfg.entryWindowMinEnd)
    THEN IF market.secondsRemaining > 60 * cfg.entryWindowMinEnd
         THEN Wait("TOO_EARLY")
         ELSE Wait("TOO_LATE")
    ELSE LET leader == getLeadingOutcome(market)
         IN  IF leader = NoOutcome THEN Wait("NO_OUTCOMES")
             ELSE IF leader.price < cfg.minEntryPrice
             THEN Wait("BELOW_MIN_ENTRY")
             ELSE LET maxShares == cfg.maxOrderSize \div leader.price
                  IN  IF maxShares <= 0 THEN Wait("ORDER_TOO_SMALL")
                      ELSE [signal |-> "BUY", outcome |-> leader,
                            reason |-> "ENTRY",
                            suggestedSize |-> maxShares,
                            suggestedPrice |-> leader.price]

FindHeld(market, tokenId) ==
    { k \in 1 .. Len(market.outcomes) : market.outcomes[k].tokenId = tokenId }

Min(S) == CHOOSE x \in S : \A y \in S : x <= y

(* The hold-only variant of evaluateExit: src/src/strategy.ts, 109-127 *)
evaluateExitHoldOnly(market, position, cfg) ==
    IF FindHeld(market, position.tokenId) = {}
    THEN Hold("NO_PRICE")
    ELSE Hold("HOLDING_FOR_RESOLUTION")

evaluateExitNoExpiryLock(market, position, cfg) ==
    IF FindHeld(market, position.tokenId) = {}
    THEN Hold("NO_PRICE")
    ELSE LET held == market.outcomes[Min(FindHeld(market, position.tokenId))]
             gain == held.price * position.size - position.costBasis
         IN  IF gain * 100 >= cfg.takeProfitPct * position.costBasis
             THEN [signal |-> "SELL", outcome |-> held,
                   reason |-> "TAKE_PROFIT",
                   suggestedSize |-> position.size,
                   suggestedPrice |-> held.price]
             ELSE Hold("HOLDING")

evaluateExitAboveTarget(market, position, cfg) ==
    IF FindHeld(market, position.tokenId) = {}
    THEN Hold("NO_PRICE")
    ELSE LET held == market.outcomes[Min(FindHeld(market, position.tokenId))]
             gain == held.price * position.size - position.costBasis
             sell(why) == [signal |-> "SELL", outcome |-> held,
                           reason |-> why,
                           suggestedSize |-> position.size,
                           suggestedPrice |-> held.price]
         IN  IF gain * 100 > cfg.takeProfitPct * position.costBasis
             THEN sell("TAKE_PROFIT")
             ELSE IF market.secondsRemaining < 60
                     /\ gain * 10 > position.costBasis
             THEN sell("NEAR_EXPIRY")
             ELSE Hold("HOLDING")

(* unrealizedGainPct = (currentValue - costBasis) / costBasis is compared  *)
(* with takeProfitPct (in percent) and with 0.1 by cross-multiplication.   *)
evaluateExit(market, position, cfg) ==
    IF FindHeld(market, position.tokenId) = {}
    THEN Hold("NO_PRICE")
    ELSE LET held == market.outcomes[Min(FindHeld(market, position.tokenId))]
             currentValue == held.price * position.size
             gain == currentValue - position.costBasis
             sell(why) == [signal |-> "SELL", outcome |-> held,
                           reason |-> why,
                           suggestedSize |-> position.size,
                           suggestedPrice |-> held.price]
         IN  IF gain * 100 >= cfg.takeProfitPct * position.costBasis
             THEN sell("TAKE_PROFIT")
             ELSE IF market.secondsRemaining < 60
                     /\ gain * 10 > position.costBasis
             THEN sell("NEAR_EXPIRY")
             ELSE Hold("HOLDING")

(* evaluateMarket calls getGuardrailState, which runs the day-rollover     *)
(* check and the pruning on the module state; the result carries the       *)
(* guardrail state left behind together with the signal.                   *)
evaluateMarket(s, market, cfg, t) ==
    LET gs == getGuardrailState(s, t)
    IN  [state |-> gs,
         signal |-> IF market.conditionId \in DOMAIN gs.openPositions
                    THEN evaluateExit(market,
                                      gs.openPositions[market.conditionId],
                                      cfg)
                    ELSE evaluateEntry(market, cfg)]

----------------------------------------------------------------------------
(* Execution orchestrator: src/src/executor.ts, lines 33-127.  executeBuy  *)
(* runs without suspension up to the order submission (executeBuyBegin)    *)
(* and, in live mode, continues when the order client answers              *)
(* (executeBuyFinish).                                                     *)

Failure(msg) ==
    [success |-> FALSE, message |-> msg, reason |-> "none", dryRun |-> FALSE]

GuardrailBlockedNoReason(why) ==
    [success |-> FALSE, message |-> "GUARDRAIL", reason |-> "none",
     dryRun |-> FALSE]

GuardrailBlocked(why) ==
    [success |-> FALSE, message |-> "GUARDRAIL", reason |-> why,
     dryRun |-> FALSE]

Success(msg, dry) ==
    [success |-> TRUE, message |-> msg, reason |-> "none", dryRun |-> dry]

PositionOf(sig, mkt) ==
    [conditionId |-> mkt.conditionId, tokenId |-> sig.outcome.tokenId,
     outcome |-> sig.outcome.outcome, entryPrice |-> sig.suggestedPrice,
     size |-> sig.suggestedSize,
     costBasis |-> sig.suggestedSize * sig.suggestedPrice,
     marketSlug |-> mkt.slug]

Done(led, s, res) ==
    [ledger |-> led, state |-> s, submitted |-> FALSE, result |-> res]

executeBuyBeginNoGate(led, s, cfg, sig, mkt, t) ==
    LET orderCost == sig.suggestedSize * sig.suggestedPrice
        check == checkPreTrade(s, cfg, orderCost, t)
    IN  IF sig.suggestedSize = 0 \/ sig.suggestedPrice = 0
        THEN Done(led, s, Failure("INVALID_SIGNAL"))
        ELSE IF ~check.allowed
        THEN Done(led, check.state, GuardrailBlocked(check.reason))
        ELSE IF cfg.dryRun
        THEN Done(logBuy(led, mkt.slug, sig.outcome.outcome,
                         sig.suggestedPrice, sig.suggestedSize, orderCost,
                         "dry-run"),
                  recordTrade(check.state, PositionOf(sig, mkt), t),
                  Success("DRY_RUN", TRUE))
        ELSE [ledger |-> led, state |-> check.state, submitted |-> TRUE,
              result |-> Failure("PENDING")]

(* The variant of executeBuy without the ledger: src/src/executor.ts,     *)
(* lines 160-243                                                           *)
executeBuyBeginNoLedger(led, s, cfg, sig, mkt, t) ==
    LET orderCost == sig.suggestedSize * sig.suggestedPrice
        check == checkPreTrade(s, cfg, orderCost, t)
    IN  IF sig.suggestedSize = 0 \/ sig.suggestedPrice = 0
        THEN Done(led, s, Failure("INVALID_SIGNAL"))
        ELSE IF ~check.allowed
        THEN Done(led, check.state, GuardrailBlocked(check.reason))
        ELSE IF cfg.dryRun
        THEN Done(led, recordTrade(check.state, PositionOf(sig, mkt), t),
                  Success("DRY_RUN", TRUE))
        ELSE [ledger |-> led, state |-> check.state, submitted |-> TRUE,
              result |-> Failure("PENDING")]

executeBuyBegin(led, s, cfg, sig, mkt, t) ==
    LET orderCost == sig.suggestedSize * sig.suggestedPrice
        check == checkPreTrade(s, cfg, orderCost, t)
    IN  IF sig.suggestedSize = 0 \/ sig.suggestedPrice = 0
        THEN Done(led, s, Failure("INVALID_SIGNAL"))
        ELSE IF hasBoughtSlug(led, mkt.slug)
        THEN Done(led, s, Failure("ALREADY_BOUGHT"))
        ELSE IF ~check.allowed
        THEN Done(led, check.state, GuardrailBlocked(check.reason))
        ELSE IF cfg.dryRun
        THEN Done(logBuy(led, mkt.slug, sig.outcome.outcome,
                         sig.suggestedPrice, sig.suggestedSize, orderCost,
                         "dry-run"),
                  recordTrade(check.state, PositionOf(sig, mkt), t),
                  Success("DRY_RUN", TRUE))
        ELSE [ledger |-> led, state |-> check.state, submitted |-> TRUE,
              result |-> Failure("PENDING")]

(* What createAndPostOrder can answer: a response with a status (the       *)
(* order identifier is "oid"), a response without status and identifier    *)
(* ("none"), an exception ("throw"), or an exception whose message holds   *)
(* the words "insufficient" or "balance" ("insufficient").                 *)
Thrown == {"throw", "insufficient"}

Responses == {"matched", "live", "delayed", "none"} \cup Thrown

executeBuyFinishRecheck(led, s, sig, mkt, resp, t) ==
    LET orderCost == sig.suggestedSize * sig.suggestedPrice
    IN  IF resp \in Thrown THEN Done(led, s, Failure("BUY_FAILED"))
        ELSE IF resp \in {"matched", "live"} /\ ~hasBoughtSlug(led, mkt.slug)
        THEN Done(logBuy(led, mkt.slug, sig.outcome.outcome,
                         sig.suggestedPrice, sig.suggestedSize, orderCost,
                         "oid"),
                  recordTrade(s, PositionOf(sig, mkt), t),
                  Success("BUY_FILLED", FALSE))
        ELSE Done(led, s, Failure("NOT_FILLED"))

executeBuyFinishDelayedCounts(led, s, sig, mkt, resp, t) ==
    LET orderCost == sig.suggestedSize * sig.suggestedPrice
    IN  IF resp \in Thrown THEN Done(led, s, Failure("BUY_FAILED"))
        ELSE IF resp \in {"matched", "live", "delayed"}
        THEN Done(logBuy(led, mkt.slug, sig.outcome.outcome,
                         sig.suggestedPrice, sig.suggestedSize, orderCost,
                         "oid"),
                  recordTrade(s, PositionOf(sig, mkt), t),
                  Success("BUY_FILLED", FALSE))
        ELSE Done(led, s, Failure("NOT_FILLED"))

executeBuyFinish(led, s, sig, mkt, resp, t) ==
    LET orderCost == sig.suggestedSize * sig.suggestedPrice
        orderId == IF resp = "none" THEN "unknown" ELSE "oid"
    IN  IF resp \in Thrown THEN Done(led, s, Failure("BUY_FAILED"))
        ELSE IF resp \in {"matched", "live"}
        THEN Done(logBuy(led, mkt.slug, sig.outcome.outcome,
                         sig.suggestedPrice, sig.suggestedSize, orderCost,
                         orderId),
                  recordTrade(s, PositionOf(sig, mkt), t),
                  Success("BUY_FILLED", FALSE))
        ELSE Done(led, s, Failure("NOT_FILLED"))

----------------------------------------------------------------------------
(* Initial state: the module-level state of a freshly started process *)

(* The process once main.ts has run to its last line: startService has   *)
(* set isRunning and the tick interval, startRedemptionTimer has set the   *)
(* 30-second timeout of the first sweep and the 45-minute interval.        *)
Started ==
    [isRunning |-> TRUE, tickTimer |-> TRUE, redeemTimer |-> TRUE,
     firstSweep |-> TRUE, exited |-> FALSE]

IdleTick == [pc |-> "idle"]

IdleSweep == [pc |-> "idle"]

Init ==
    /\ now = StartTime
    /\ state = createFreshState(StartTime)
    /\ ledger = <<>>
    /\ config \in Configs
    /\ ticks = [i \in TickIds |-> IdleTick]
    /\ orders = [w \in Windows |-> 0]
    /\ sweeps = [j \in SweepIds |-> IdleSweep]
    /\ lastCall = [op |-> "init"]
    /\ succeeded = {}
    /\ service = Started

(* The clock: Date.now() moves forward between two operations *)
Advance ==
    /\ now < MaxNow
    /\ now' = now + 1
    /\ lastCall' = [op |-> "advance"]
    /\ UNCHANGED <<state, ledger, config, ticks, orders, sweeps, succeeded,
                   service>>

----------------------------------------------------------------------------
(* Tick driver: src/unnamed/part_002.  setInterval starts a tick whether   *)
(* or not an earlier one is still suspended, so several ticks can be in    *)
(* flight; each slot of ticks holds one of them.  A tick is suspended at   *)
(* discoverCurrentMarket ("discover"), at getBalanceAllowance ("balance")  *)
(* and, inside executeBuy, at createAndPostOrder ("order").                *)

MarketShapes ==
    { <<540, 62, 38, FALSE>>, <<606, 54, 47, FALSE>>, <<540, 62, 38, TRUE>>,
      <<30, 95, 5, FALSE>> }

Markets ==
    { MkMarket(w, sh[1], sh[2], sh[3], sh[4]) :
          w \in Windows, sh \in MarketShapes }

(* The market of the current window while the clock stands still *)
CurrentMarket == MkMarket(NumWindows, 540, 62, 38, FALSE)

NoMarket == [conditionId |-> 0, slug |-> 0, secondsRemaining |-> 0,
             outcomes |-> <<>>, closed |-> TRUE]

TickFrame == UNCHANGED <<now, config, sweeps, service>>

TickStart(i) ==
    /\ service.tickTimer /\ ~service.exited
    /\ ticks[i].pc = "idle"
    /\ ticks' = [ticks EXCEPT ![i] = [pc |-> "discover"]]
    /\ lastCall' = [op |-> "tick", step |-> "start"]
    /\ UNCHANGED <<state, ledger, orders, succeeded>>
    /\ TickFrame

(* discoverCurrentMarket has answered: nothing found or a closed market    *)
(* ends the tick; otherwise evaluateMarket runs and the tick asks for the  *)
(* balance (the client is initialised before the service starts).          *)
TickDiscovered(i, mkt) ==
    /\ ticks[i].pc = "discover"
    /\ IF mkt = NoMarket \/ mkt.closed
       THEN /\ ticks' = [ticks EXCEPT ![i] = IdleTick]
            /\ state' = state
            /\ lastCall' = [op |-> "tick", step |-> "nomarket"]
       ELSE LET ev == evaluateMarket(state, mkt, config, now)
            IN  /\ ticks' = [ticks EXCEPT ![i] =
                                [pc |-> "balance", mkt |-> mkt,
                                 sig |-> ev.signal]]
                /\ state' = ev.state
                /\ lastCall' = [op |-> "evaluateMarket",
                                signal |-> ev.signal.signal]
    /\ UNCHANGED <<ledger, orders, succeeded>>
    /\ TickFrame

(* getBalanceAllowance has answered or thrown (the error is swallowed);    *)
(* a BUY signal goes to executeBuy, which runs up to the order submission. *)
TickBalance(i) ==
    /\ ticks[i].pc = "balance"
    /\ LET mkt == ticks[i].mkt
           sig == ticks[i].sig
       IN  IF sig.signal # "BUY"
           THEN /\ ticks' = [ticks EXCEPT ![i] = IdleTick]
                /\ lastCall' = [op |-> "tick", step |-> "noexec"]
                /\ UNCHANGED <<state, ledger, orders, succeeded>>
           ELSE LET r == executeBuyBegin(ledger, state, config, sig, mkt, now)
                IN  /\ r.submitted => orders[mkt.slug] < MaxOrders
                    /\ state' = r.state
                    /\ ledger' = r.ledger
                    /\ orders' = IF r.submitted
                                  THEN [orders EXCEPT ![mkt.slug] = @ + 1]
                                  ELSE orders
                    /\ ticks' = [ticks EXCEPT ![i] =
                                    IF r.submitted
                                    THEN [pc |-> "order", mkt |-> mkt,
                                          sig |-> sig]
                                    ELSE IdleTick]
                    /\ succeeded' = IF r.result.success
                                     THEN succeeded \cup {mkt.slug}
                                     ELSE succeeded
                    /\ lastCall' = [op |-> "executeBuy",
                                    phase |-> "begin", slug |-> mkt.slug,
                                    submitted |-> r.submitted,
                                    result |-> r.result]
    /\ TickFrame

(* createAndPostOrder has answered or thrown *)
TickOrderReturn(i, resp) ==
    /\ ticks[i].pc = "order"
    /\ LET mkt == ticks[i].mkt
           sig == ticks[i].sig
           r == executeBuyFinish(ledger, state, sig, mkt, resp, now)
       IN  /\ state' = r.state
           /\ ledger' = r.ledger
           /\ succeeded' = IF r.result.success
                            THEN succeeded \cup {mkt.slug}
                            ELSE succeeded
           /\ lastCall' = [op |-> "executeBuy",
                           phase |-> "finish", slug |-> mkt.slug,
                           resp |-> resp,
                           boughtBefore |-> hasBoughtSlug(ledger, mkt.slug),
                           result |-> r.result]
    /\ ticks' = [ticks EXCEPT ![i] = IdleTick]
    /\ UNCHANGED orders
    /\ TickFrame

(* The process stops and is started again: the module state of             *)
(* guardrails.ts is created afresh and the calls in flight are gone; the   *)
(* ledger file and what the order client has received stay.                *)
Restart ==
    /\ state' = createFreshState(now)
    /\ ticks' = [i \in TickIds |-> IdleTick]
    /\ sweeps' = [j \in SweepIds |-> IdleSweep]
    /\ service' = Started
    /\ lastCall' = [op |-> "restart"]
    /\ UNCHANGED <<now, ledger, config, orders, succeeded>>

NextTick ==
    \/ Advance
    \/ Restart
    \/ \E i \in TickIds : TickStart(i)
    \/ \E i \in TickIds, mkt \in Markets \cup {NoMarket} : TickDiscovered(i, mkt)
    \/ \E i \in TickIds : TickBalance(i)
    \/ \E i \in TickIds, resp \in Responses : TickOrderReturn(i, resp)

SpecTick == Init /\ [][NextTick]_vars

----------------------------------------------------------------------------
(* Redemption sweeper: src/src/redeemer.ts.  The timers start a sweep      *)
(* whether or not an earlier one is still running; each slot of sweeps     *)
(* holds one.  A sweep is suspended at getBalance ("gas"), at the market  *)
(* fetch ("fetch"), at balanceOf ("balance"), at factory.proxy             *)
(* ("submit"), at tx.wait ("wait") and at getTransactionReceipt ("poll");  *)
(* the pacing sleeps are part of the suspension that follows them, and     *)
(* the redemption transaction goes out when "balance" is left for          *)
(* "submit".                                                               *)

ScanCount == NumWindows

(* The i-th scanned window: the most recent one first *)
ScanWindow(i) == NumWindows + 1 - i

WaitAttempts == 3

FetchResults ==
    {[ok |-> FALSE, winner |-> "none", tokens |-> 0]}
    \cup [ok : {TRUE}, winner : {"none", "Up", "Down"}, tokens : {-1, 2}]

ResolvedFetchResults ==
    { r \in FetchResults : r.ok => (r.winner # "Down" /\ r.tokens = 2) }

SweepFrame ==
    UNCHANGED <<now, state, config, ticks, orders, succeeded, service>>

(* The sweep goes on with the next window, or ends after the last one *)
AfterWindow(sl) ==
    IF sl.i < ScanCount
    THEN [pc |-> "fetch", i |-> sl.i + 1, k |-> 0, ntok |-> 0,
          attempt |-> 0, redeemed |-> sl.redeemed]
    ELSE IdleSweep

(* The sweep goes on with the next token of the window *)
AfterToken(sl) ==
    IF sl.k < sl.ntok
    THEN [sl EXCEPT !.pc = "balance", !.k = sl.k + 1, !.attempt = 0]
    ELSE AfterWindow(sl)

SweepStart(j) ==
    /\ service.redeemTimer /\ ~service.exited
    /\ sweeps[j].pc = "idle"
    /\ sweeps' = [sweeps EXCEPT ![j] = [pc |-> "gas"]]
    /\ lastCall' = [op |-> "sweep", step |-> "start"]
    /\ UNCHANGED ledger
    /\ SweepFrame

(* getBalance has answered: below 0.001 or an RPC error ends the sweep *)
FirstWindow ==
    [pc |-> "fetch", i |-> 1, k |-> 0, ntok |-> 0, attempt |-> 0,
     redeemed |-> 0]

AfterGasIgnoresError(r) ==
    IF r \in {"ok", "error"} THEN FirstWindow ELSE IdleSweep

AfterGas(r) == IF r = "ok" THEN FirstWindow ELSE IdleSweep

SweepGas(j, r) ==
    /\ sweeps[j].pc = "gas"
    /\ sweeps' = [sweeps EXCEPT ![j] = AfterGas(r)]
    /\ lastCall' = [op |-> "sweep", step |-> "gas", gas |-> r]
    /\ UNCHANGED ledger
    /\ SweepFrame

(* The market fetch has answered: the resolution is logged unless the     *)
(* ledger has one for the slug, then the token loop starts.  tokens = -1   *)
(* stands for a clobTokenIds text that JSON.parse rejects.                 *)
SweepFetch(j, r) ==
    /\ sweeps[j].pc = "fetch"
    /\ LET sl == sweeps[j]
           slug == ScanWindow(sl.i)
           logIt == r.ok /\ r.winner # "none" /\ ~hasResolution(ledger, slug)
       IN  /\ logIt => Len(ledger) < MaxLedger
           /\ ledger' = IF logIt THEN logResolution(ledger, slug, r.winner)
                         ELSE ledger
           /\ sweeps' = [sweeps EXCEPT ![j] =
                            IF ~r.ok \/ r.tokens <= 0
                            THEN AfterWindow(sl)
                            ELSE [sl EXCEPT !.pc = "balance", !.k = 1,
                                            !.ntok = r.tokens]]
           /\ lastCall' = [op |-> "sweep", step |-> "fetch",
                           slug |-> slug, logged |-> logIt,
                           resolved |-> r.ok /\ r.winner # "none"]
    /\ SweepFrame

(* balanceOf has answered: a positive balance is redeemed through the      *)
(* proxy factory; zero or a read error goes on with the next token.        *)
BalanceReads == {"zero", "positive", "error"}

AfterBalanceRedeemsUnread(sl, r) ==
    IF r \in {"positive", "error"} THEN [sl EXCEPT !.pc = "submit"]
    ELSE AfterToken(sl)

AfterBalance(sl, r) ==
    IF r = "positive" THEN [sl EXCEPT !.pc = "submit"]
    ELSE AfterToken(sl)

SweepBalance(j, r) ==
    /\ sweeps[j].pc = "balance"
    /\ sweeps' = [sweeps EXCEPT ![j] = AfterBalance(sweeps[j], r)]
    /\ lastCall' = [op |-> "sweep", step |-> "balance", read |-> r]
    /\ UNCHANGED ledger
    /\ SweepFrame

(* factory.proxy has answered with the transaction or thrown *)
AfterSubmitContinues(sl, r) ==
    IF r = "tx" THEN [sl EXCEPT !.pc = "wait", !.attempt = 0]
    ELSE AfterToken(sl)

AfterSubmit(sl, r) ==
    CASE r = "tx" -> [sl EXCEPT !.pc = "wait", !.attempt = 0]
      [] r = "insufficient funds" -> IdleSweep
      [] OTHER -> AfterToken(sl)

SweepSubmitted(j, r) ==
    /\ sweeps[j].pc = "submit"
    /\ sweeps' = [sweeps EXCEPT ![j] = AfterSubmit(sweeps[j], r)]
    /\ lastCall' = [op |-> "sweep", step |-> "submit", answer |-> r,
                    at |-> <<sweeps[j].i, sweeps[j].k>>]
    /\ UNCHANGED ledger
    /\ SweepFrame

CountedOnlyConfirmed(receipt) == receipt = "status1"

(* The receipt decides whether the redemption is counted: "null" is no     *)
(* receipt at all                                                          *)
Counted(receipt) == receipt \in {"status1", "null"}

ClassifiedRevertStops(sl, receipt) ==
    IF receipt = "status0" THEN IdleSweep
    ELSE AfterToken(IF Counted(receipt)
                    THEN [sl EXCEPT !.redeemed = @ + 1]
                    ELSE sl)

Classified(sl, receipt) ==
    AfterToken(IF Counted(receipt)
               THEN [sl EXCEPT !.redeemed = @ + 1]
               ELSE sl)

(* What tx.wait can throw: any error, or one whose text holds             *)
(* "insufficient funds"                                                    *)
WaitThrown == {"throw", "insufficient funds"}

AfterWaitErrorFourthAttempt(sl) ==
    IF sl.attempt < WaitAttempts THEN [sl EXCEPT !.attempt = @ + 1]
    ELSE [sl EXCEPT !.pc = "poll"]

(* tx.wait has thrown: the next attempt, or the poll after the last one *)
AfterWaitError(sl) ==
    IF sl.attempt + 1 < WaitAttempts THEN [sl EXCEPT !.attempt = @ + 1]
    ELSE [sl EXCEPT !.pc = "poll"]

(* tx.wait has answered with a receipt or thrown; receipt is what          *)
(* waitForTx returns, "pending" while it has not returned                  *)
SweepWait(j, r) ==
    /\ sweeps[j].pc = "wait"
    /\ LET sl == sweeps[j]
       IN  sweeps' = [sweeps EXCEPT ![j] =
                        IF r \notin WaitThrown THEN Classified(sl, r)
                        ELSE AfterWaitError(sl)]
    /\ lastCall' = [op |-> "sweep", step |-> "wait", answer |-> r,
                    receipt |-> IF r \in WaitThrown THEN "pending" ELSE r,
                    counted |-> r \notin WaitThrown /\ Counted(r)]
    /\ UNCHANGED ledger
    /\ SweepFrame

(* What getTransactionReceipt answers: a mined receipt, null, a receipt    *)
(* without a block number, or an exception                                 *)
PollAnswers == {"status1", "status0", "null", "unmined", "throw"}

(* What waitForTx returns after the poll *)
ReceiptOfPoll(r) == IF r \in {"status1", "status0"} THEN r ELSE "null"

(* getTransactionReceipt has answered or thrown *)
SweepPoll(j, r) ==
    /\ sweeps[j].pc = "poll"
    /\ sweeps' = [sweeps EXCEPT ![j] =
                     Classified(sweeps[j], ReceiptOfPoll(r))]
    /\ lastCall' = [op |-> "sweep", step |-> "poll", answer |-> r,
                    receipt |-> ReceiptOfPoll(r),
                    counted |-> Counted(ReceiptOfPoll(r))]
    /\ UNCHANGED ledger
    /\ SweepFrame

NextSweep ==
    \/ \E j \in SweepIds : SweepStart(j)
    \/ \E j \in SweepIds, r \in {"ok", "low", "error"} : SweepGas(j, r)
    \/ \E j \in SweepIds, r \in FetchResults : SweepFetch(j, r)
    \/ \E j \in SweepIds, r \in BalanceReads : SweepBalance(j, r)
    \/ \E j \in SweepIds, r \in {"tx", "insufficient funds", "error"} :
           SweepSubmitted(j, r)
    \/ \E j \in SweepIds, r \in {"status1", "status0"} \cup WaitThrown :
           SweepWait(j, r)
    \/ \E j \in SweepIds, r \in PollAnswers : SweepPoll(j, r)

InitOne == Init /\ config.enabled /\ config.dryRun

SpecSweep == InitOne /\ [][NextSweep \/ Restart]_vars

(* The sweeper with the progress its code guarantees.  A call that has     *)
(* answered is resumed.  getBalance, the market fetch, balanceOf,          *)
(* factory.proxy and getTransactionReceipt are single requests and are     *)
(* taken here to end with an answer or an error.  tx.wait() is called      *)
(* with no timeout and answers only when the transaction is mined or       *)
(* replaced; neither waitForTx nor runRedemptionSweep sets a timer around  *)
(* it or around any other call, so the sweep takes no step of its own      *)
(* while tx.wait is outstanding.                                           *)
SweepAnswered(j) ==
    \/ \E r \in {"ok", "low", "error"} : SweepGas(j, r)
    \/ \E r \in FetchResults : SweepFetch(j, r)
    \/ \E r \in BalanceReads : SweepBalance(j, r)
    \/ \E r \in {"tx", "insufficient funds", "error"} : SweepSubmitted(j, r)
    \/ \E r \in PollAnswers : SweepPoll(j, r)

SpecSweepLive ==
    /\ InitOne
    /\ [][NextSweep]_vars
    /\ \A j \in SweepIds : WF_vars(SweepAnswered(j))

----------------------------------------------------------------------------
(* The two drivers together: ticks and sweeps interleave freely and share  *)
(* the ledger only.  Here the clock stands still and every balanceOf       *)
(* reads zero or fails, so that no redemption is under way; SpecTick and   *)
(* SpecSweep cover the clock and the redemptions.                          *)

Next ==
    \/ Restart
    \/ \E i \in TickIds : TickStart(i)
    \/ \E i \in TickIds, mkt \in {CurrentMarket, NoMarket} :
           TickDiscovered(i, mkt)
    \/ \E i \in TickIds : TickBalance(i)
    \/ \E i \in TickIds, resp \in {"matched", "delayed"} :
           TickOrderReturn(i, resp)
    \/ \E j \in SweepIds : SweepStart(j)
    \/ \E j \in SweepIds, r \in {"ok", "low"} : SweepGas(j, r)
    \/ \E j \in SweepIds, r \in ResolvedFetchResults : SweepFetch(j, r)
    \/ \E j \in SweepIds : SweepBalance(j, "zero")

InitEnabled == Init /\ config.enabled

Spec == InitEnabled /\ [][Next]_vars

----------------------------------------------------------------------------
(* The service: startService, stopService and the catch block of tick     *)
(* (src/unnamed/part_002), the two timers of the sweeper                   *)
(* (src/src/redeemer.ts, 230-254) and the shutdown handler                 *)
(* (src/unnamed/part_006, 82-90).  The clock stands still here.            *)

stopService(sv) == [sv EXCEPT !.tickTimer = FALSE, !.isRunning = FALSE]

(* clearInterval on the 45-minute interval; the 30-second timeout of the   *)
(* first sweep is not kept in a variable and is not cleared                *)
stopRedemptionTimer(sv) == [sv EXCEPT !.redeemTimer = FALSE]

processExit(sv) == [sv EXCEPT !.exited = TRUE]

TickCaughtRethrows(s, err) == [state |-> s, outcome |-> "rejected"]

(* The catch block of tick: the error is logged, a message that holds      *)
(* "insufficient" or "balance" activates the killswitch, and tick returns  *)
(* its result                                                              *)
TickCaught(s, err) ==
    [state |-> IF err = "insufficient" THEN activateKillswitch(s) ELSE s,
     outcome |-> "returned"]

(* startService and the interval call tick without awaiting it and        *)
(* without a rejection handler: an exception that left tick would be an    *)
(* unhandled rejection, which ends the process                             *)
AfterTick(sv, outcome) ==
    IF outcome = "rejected" THEN processExit(sv) ELSE sv

(* An exception inside the try block of tick, outside the calls that       *)
(* catch their own: discoverCurrentMarket takes apart a reply it cannot    *)
(* read, or evaluateMarket or the building of the log line throws          *)
TickThrows(i, err) ==
    /\ ticks[i].pc \in {"discover", "balance"}
    /\ LET c == TickCaught(state, err)
       IN  /\ state' = c.state
           /\ service' = AfterTick(service, c.outcome)
           /\ lastCall' = [op |-> "tick", step |-> "caught", err |-> err,
                           outcome |-> c.outcome]
    /\ ticks' = [ticks EXCEPT ![i] = IdleTick]
    /\ UNCHANGED <<now, ledger, config, orders, sweeps, succeeded>>

(* The timeout set by startRedemptionTimer fires: the first sweep *)
FirstSweepFires(j) ==
    /\ service.firstSweep /\ ~service.exited
    /\ sweeps[j].pc = "idle"
    /\ sweeps' = [sweeps EXCEPT ![j] = [pc |-> "gas"]]
    /\ service' = [service EXCEPT !.firstSweep = FALSE]
    /\ lastCall' = [op |-> "sweep", step |-> "first"]
    /\ UNCHANGED <<now, state, ledger, config, ticks, orders, succeeded>>

(* SIGINT or SIGTERM: the handler stops both timers and calls              *)
(* process.exit(0), with which every call in flight and every pending      *)
(* timer ends                                                              *)
Shutdown ==
    /\ ~service.exited
    /\ service' = processExit(stopRedemptionTimer(stopService(service)))
    /\ ticks' = [i \in TickIds |-> IdleTick]
    /\ sweeps' = [j \in SweepIds |-> IdleSweep]
    /\ lastCall' = [op |-> "shutdown"]
    /\ UNCHANGED <<now, state, ledger, config, orders, succeeded>>

NextService ==
    \/ Restart
    \/ Shutdown
    \/ \E i \in TickIds : TickStart(i)
    \/ \E i \in TickIds, mkt \in {CurrentMarket, NoMarket} :
           TickDiscovered(i, mkt)
    \/ \E i \in TickIds, err \in Thrown : TickThrows(i, err)
    \/ \E i \in TickIds : TickBalance(i)
    \/ \E i \in TickIds, resp \in {"matched", "none", "throw"} :
           TickOrderReturn(i, resp)
    \/ \E j \in SweepIds : FirstSweepFires(j)
    \/ \E j \in SweepIds : SweepStart(j)
    \/ \E j \in SweepIds, r \in {"low", "error"} : SweepGas(j, r)

SpecService == Init /\ [][NextService]_vars

\* C25: the tick loop always continues: a tick that ends with a guardrail
\* denial, with a failed order or with an exception in one of its steps
\* returns its result, no error leaves tick, and the driver is as it was:
\* the interval is still set, so the next tick starts.
C25_TickLoopContinues ==
    [][\A i \in TickIds :
          (/\ ticks[i].pc # "idle"
           /\ ticks'[i].pc = "idle"
           /\ lastCall'.op \notin {"restart", "shutdown"})
              => /\ service' = service
                 /\ service'.tickTimer /\ ~service'.exited
                 /\ (lastCall'.op = "tick" /\ lastCall'.step = "caught")
                        => /\ lastCall'.outcome = "returned"
                           /\ state'.killswitch =
                                  (state.killswitch
                                      \/ lastCall'.err = "insufficient")
                 /\ (lastCall'.op = "executeBuy")
                        => state'.killswitch = state.killswitch]_vars

C25_Witness ==
    /\ lastCall.op = "tick"
    /\ lastCall.step = "caught"
    /\ lastCall.err = "throw"
    /\ ~state.killswitch
    /\ service = Started
    /\ \E i \in TickIds : ticks[i].pc = "idle"
    /\ \E i \in TickIds : ticks[i].pc = "order"

\* C26: once the shutdown handler has run, no new tick and no new sweep
\* starts, whenever after the start the shutdown happens, and the calls
\* in flight are not aborted: the handler leaves them as they are.
C26_ShutdownKeepsCallsInFlight ==
    [][/\ lastCall'.op = "shutdown" => (ticks' = ticks /\ sweeps' = sweeps)
       /\ \A i \in TickIds :
              (~service.tickTimer /\ ticks[i].pc = "idle")
                  => (ticks'[i].pc = "idle" \/ lastCall'.op = "restart")
       /\ \A j \in SweepIds :
              (~service.redeemTimer /\ sweeps[j].pc = "idle")
                  => (sweeps'[j].pc = "idle" \/ lastCall'.op = "restart")]_vars

----------------------------------------------------------------------------
(* The guardrail operations called directly, as a test or a monitoring     *)
(* tool calls them (guardrails.ts exports)                                 *)

GuardFrame == UNCHANGED <<now, ledger, config, ticks, orders, sweeps,
                          succeeded, service>>

ApiCheckPreTrade(cost) ==
    LET r == checkPreTrade(state, config, cost, now)
    IN  /\ state' = r.state
        /\ lastCall' = [op |-> "checkPreTrade", cost |-> cost,
                        allowed |-> r.allowed, reason |-> r.reason,
                        killBefore |-> state.killswitch,
                        rolled |-> UtcDay(now) # state.lastResetDay,
                        countBefore |-> state.dailyTradeCount]
        /\ GuardFrame

ApiRecordTrade(position) ==
    /\ state.dailyTradeCount < MaxTrades
    /\ state' = recordTrade(state, position, now)
    /\ lastCall' = [op |-> "recordTrade", position |-> position,
                    pnlBefore |-> state.dailyPnl,
                    exposureBefore |-> state.totalExposure]
    /\ GuardFrame

ApiRecordClose(conditionId, proceeds) ==
    /\ state' = recordClose(state, conditionId, proceeds)
    /\ lastCall' = [op |-> "recordClose", conditionId |-> conditionId,
                    proceeds |-> proceeds,
                    prev |-> IF lastCall.op = "recordTrade" THEN lastCall
                             ELSE [op |-> lastCall.op]]
    /\ GuardFrame

ApiGetGuardrailState ==
    /\ state' = getGuardrailState(state, now)
    /\ lastCall' = [op |-> "getGuardrailState",
                    rolled |-> UtcDay(now) # state.lastResetDay,
                    countBefore |-> state.dailyTradeCount]
    /\ GuardFrame

ApiActivateKillswitch ==
    /\ state' = activateKillswitch(state)
    /\ lastCall' = [op |-> "activateKillswitch"]
    /\ GuardFrame

ApiResetKillswitch ==
    /\ state' = resetKillswitch(state)
    /\ lastCall' = [op |-> "resetKillswitch"]
    /\ GuardFrame

ApiResetState ==
    /\ state' = resetState(now)
    /\ lastCall' = [op |-> "resetState"]
    /\ GuardFrame

NextGuard ==
    \/ Advance
    \/ \E cost \in ApiCosts : ApiCheckPreTrade(cost)
    \/ \E position \in ApiPositions : ApiRecordTrade(position)
    \/ \E w \in Windows, proceeds \in ApiProceeds : ApiRecordClose(w, proceeds)
    \/ ApiGetGuardrailState
    \/ ApiActivateKillswitch
    \/ ApiResetKillswitch
    \/ ApiResetState

InitGuard == Init /\ config.dryRun

SpecGuard == InitGuard /\ [][NextGuard]_vars

----------------------------------------------------------------------------
(* Properties of the guardrail state *)

SumCost(positions) ==
    SumSet([c \in DOMAIN positions |-> positions[c].costBasis],
           DOMAIN positions)

\* C4: in every reachable guardrail state totalExposure equals the sum of
\* costBasis over the positions in openPositions, also after recordTrade
\* has been called twice with the same conditionId.
C4_ExposureIsSum == state.totalExposure = SumCost(state.openPositions)

\* C5: a checkPreTrade called while killswitch is true returns
\* allowed = false with the killswitch reason, whatever the config, the
\* order cost and the other guardrail fields are.
C5_KillswitchDenies ==
    (lastCall.op = "checkPreTrade" /\ lastCall.killBefore)
        => (~lastCall.allowed /\ lastCall.reason = "KILLSWITCH")

C5_Witness ==
    /\ lastCall.op = "checkPreTrade"
    /\ lastCall.killBefore
    /\ ~config.enabled
    /\ lastCall.cost > config.maxOrderSize
    /\ lastCall.reason = "KILLSWITCH"

CheckNames ==
    <<"KILLSWITCH", "DISABLED", "ORDER_SIZE", "MAX_POSITION", "DAILY_LOSS",
      "HOURLY_LIMIT">>

CheckFails(cost) ==
    <<state.killswitch,
      ~config.enabled,
      cost > config.maxOrderSize,
      state.totalExposure + cost > config.maxPositionSize,
      state.dailyPnl < 0 /\ (0 - state.dailyPnl) >= config.maxDailyLoss,
      Len(state.hourlyTrades) >= config.maxTradesPerHour>>

\* C6: checkPreTrade reports the first failing check in the order
\* killswitch, trading disabled, per-order cap, max-position cap,
\* daily-loss cap, hourly cap, and allows exactly when no check fails.
C6_CheckOrder ==
    lastCall.op = "checkPreTrade" =>
        LET fails == CheckFails(lastCall.cost)
        IN  /\ lastCall.allowed <=> (\A i \in 1 .. 6 : ~fails[i])
            /\ \A i \in 1 .. 6 :
                   (fails[i] /\ \A j \in 1 .. (i - 1) : ~fails[j])
                       => (~lastCall.allowed
                           /\ lastCall.reason = CheckNames[i])

C6_Witness ==
    /\ lastCall.op = "checkPreTrade"
    /\ lastCall.reason = "MAX_POSITION"
    /\ CheckFails(lastCall.cost)[5]
    /\ CheckFails(lastCall.cost)[6]

\* C7 (as claimed): once killswitch is true, only resetKillswitch sets it
\* back to false.
C7_OnlyResetKillswitchClears ==
    [][(state.killswitch /\ ~state'.killswitch)
           => lastCall'.op = "resetKillswitch"]_vars

\* C7 (amended): once killswitch is true it stays true across
\* checkPreTrade, recordTrade, recordClose, getGuardrailState,
\* activateKillswitch and UTC-day rollovers; only resetKillswitch and the
\* full reset resetState set it back to false.
C7_KillswitchSticky ==
    [][(state.killswitch /\ ~state'.killswitch)
           => lastCall'.op \in {"resetKillswitch", "resetState"}]_vars

C7_Witness ==
    /\ lastCall.op = "getGuardrailState"
    /\ lastCall.rolled
    /\ state.lastResetDay = UtcDay(now)
    /\ state.killswitch

CountersReset ==
    /\ \/ state.dailyPnl # 0
       \/ state.dailyTradeCount # 0
       \/ state.hourlyTrades # <<>>
    /\ state'.dailyPnl = 0
    /\ state'.dailyTradeCount = 0
    /\ state'.hourlyTrades = <<>>
    /\ lastCall'.op # "recordClose"

\* C8 (as claimed): dailyPnl, dailyTradeCount and hourlyTrades are reset
\* only by an operation executed when the UTC date differs from
\* lastResetDay, which then sets lastResetDay to the current date.
C8_ResetOnlyOnRollover ==
    [][CountersReset
           => (UtcDay(now) # state.lastResetDay
               /\ state'.lastResetDay = UtcDay(now))]_vars

\* C8 (amended): apart from the full reset resetState, the three daily
\* counters are reset only by checkPreTrade or getGuardrailState executed
\* when the UTC date differs from lastResetDay, which then sets
\* lastResetDay to the current date; no other operation, and no operation
\* on the same UTC date, resets them or changes lastResetDay.
C8_ResetOnRolloverOrFullReset ==
    [][lastCall'.op # "resetState" =>
           /\ CountersReset
                  => /\ lastCall'.op \in {"checkPreTrade", "getGuardrailState"}
                     /\ UtcDay(now) # state.lastResetDay
                     /\ state'.lastResetDay = UtcDay(now)
           /\ state'.lastResetDay # state.lastResetDay
                  => /\ UtcDay(now) # state.lastResetDay
                     /\ state'.dailyPnl = 0
                     /\ state'.dailyTradeCount = 0
                     /\ state'.hourlyTrades = <<>>]_vars

C8_Witness ==
    /\ lastCall.op \in {"checkPreTrade", "getGuardrailState"}
    /\ lastCall.rolled
    /\ lastCall.countBefore > 0
    /\ state.dailyTradeCount = 0
    /\ state.hourlyTrades = <<>>
    /\ state.lastResetDay = UtcDay(now)

C27_AutoKillAtFixedThreshold ==
    [][lastCall'.op = "recordClose" =>
          LET c == lastCall'.conditionId
          IN  IF c \in DOMAIN state.openPositions
              THEN LET pnl2 == state.dailyPnl + lastCall'.proceeds
                                   - state.openPositions[c].costBasis
                   IN  /\ state'.dailyPnl = pnl2
                       /\ state'.killswitch =
                              (state.killswitch
                                  \/ (pnl2 < 0 /\ Abs(pnl2) >= 2500))
              ELSE state' = state]_vars

C27_Witness ==
    /\ lastCall.op = "recordClose"
    /\ lastCall.prev.op = "recordTrade"
    /\ lastCall.conditionId = lastCall.prev.position.conditionId
    /\ lastCall.prev.pnlBefore > -2500
    /\ state.killswitch
    /\ state.dailyPnl <= -2500
    /\ config.maxDailyLoss < 2500

\* C28: the killswitch auto-activates when the daily loss hits the
\* configured limit: after a recordClose that leaves dailyPnl negative
\* with a magnitude of at least config.maxDailyLoss the killswitch is
\* active.
C28_KillAtConfiguredLimit ==
    [][(/\ lastCall'.op = "recordClose"
        /\ lastCall'.conditionId \in DOMAIN state.openPositions
        /\ state'.dailyPnl < 0
        /\ Abs(state'.dailyPnl) >= config.maxDailyLoss)
           => state'.killswitch]_vars

----------------------------------------------------------------------------
(* Properties of the orchestrator and of the ledger *)

\* C1: for every window the order client receives at most one BUY order
\* submission, over any run of ticks and restarts and whatever each
\* submission answers.
C1_AtMostOneSubmission == \A w \in Windows : orders[w] <= 1

\* C2: once an executeBuy for a window has returned success, every
\* executeBuy for that window that starts later returns the failure
\* "already bought in this block" and submits no order, appends nothing to
\* the ledger and leaves the guardrail state alone, also after a restart.
C2_SecondBuyRejected ==
    [][(/\ lastCall'.op = "executeBuy"
        /\ lastCall'.phase = "begin"
        /\ lastCall'.slug \in succeeded)
           => /\ lastCall'.result = Failure("ALREADY_BOUGHT")
              /\ ~lastCall'.submitted
              /\ orders' = orders
              /\ ledger' = ledger
              /\ state' = state]_vars

C2_Witness ==
    /\ lastCall.op = "executeBuy"
    /\ lastCall.phase = "begin"
    /\ lastCall.slug \in succeeded
    /\ lastCall.result = Failure("ALREADY_BOUGHT")
    /\ lastCall.slug \notin DOMAIN state.openPositions

\* C3: the ledger check and the ledger append of a live executeBuy are not
\* one atomic step: a call that was suspended at the order submission
\* appends its buy fact when the answer is matched or live without looking
\* at the ledger again, so that two overlapping calls for one window leave
\* two buy facts and two submitted orders (the witness).
C3_AppendWithoutRecheck ==
    [][(/\ lastCall'.op = "executeBuy"
        /\ lastCall'.phase = "finish"
        /\ lastCall'.resp \in {"matched", "live"})
           => /\ Len(ledger') = Len(ledger) + 1
              /\ SubSeq(ledger', 1, Len(ledger)) = ledger
              /\ ledger'[Len(ledger')].type = "buy"
              /\ ledger'[Len(ledger')].slug = lastCall'.slug
              /\ lastCall'.result.success]_vars

C3_Witness ==
    /\ ~config.dryRun
    /\ lastCall.op = "executeBuy"
    /\ lastCall.phase = "finish"
    /\ lastCall.boughtBefore
    /\ CountEntries(ledger, "buy", lastCall.slug) >= 2
    /\ orders[lastCall.slug] >= 2

\* C10: for every window the ledger holds at most one resolution fact,
\* after any number of sweeps interleaved with ticks and with each other.
C10_OneResolutionPerWindow ==
    \A w \in Windows : CountEntries(ledger, "resolution", w) <= 1

C10_Witness ==
    /\ lastCall.op = "sweep"
    /\ lastCall.step = "fetch"
    /\ lastCall.resolved
    /\ ~lastCall.logged
    /\ CountEntries(ledger, "resolution", lastCall.slug) = 1
    /\ CountEntries(ledger, "buy", lastCall.slug) >= 1
    /\ \A j \in SweepIds : sweeps[j].pc # "idle"

\* C39: after any sequence of executeBuy calls, overlapping live calls
\* suspended at the order submission included, totalExposure never
\* exceeds config.maxPositionSize.
C39_ExposureWithinCap == state.totalExposure <= config.maxPositionSize

\* C38: in dry-run mode executeBuy runs from its ledger check to its
\* ledger append without suspension, so however overlapping ticks and
\* sweeps interleave, the ledger never holds more than one buy fact for
\* the same window identifier.
C38_DryRunOneBuyPerWindow ==
    config.dryRun => \A w \in Windows : CountEntries(ledger, "buy", w) <= 1

C38_Witness ==
    /\ config.dryRun
    /\ lastCall.op = "executeBuy"
    /\ lastCall.phase = "begin"
    /\ lastCall.result = Failure("ALREADY_BOUGHT")
    /\ CountEntries(ledger, "buy", lastCall.slug) = 1
    /\ ledger[Len(ledger)].type = "resolution"
    /\ \E i \in TickIds : ticks[i].pc # "idle"
    /\ \E j \in SweepIds : sweeps[j].pc # "idle"

(* The ledger led2 is the ledger led with one record of the type added    *)
(* at its end                                                              *)
AppendedOne(led, led2, type) ==
    /\ Len(led2) = Len(led) + 1
    /\ SubSeq(led2, 1, Len(led)) = led
    /\ led2[Len(led2)].type = type

\* C29: however ticks and sweeps interleave, a step of a sweep leaves the
\* guardrail state alone and leaves the ledger alone or appends one
\* resolution record to it, so it changes hasBoughtSlug(w) for no window;
\* a step of a tick leaves the sweeps alone and leaves the ledger alone
\* or appends one buy record, never a resolution record.
C29_DriversShareOnlyTheLedger ==
    [][/\ lastCall'.op = "sweep"
           => /\ state' = state
              /\ ticks' = ticks
              /\ ledger' = ledger \/ AppendedOne(ledger, ledger', "resolution")
              /\ \A w \in Windows :
                     hasBoughtSlug(ledger', w) = hasBoughtSlug(ledger, w)
       /\ lastCall'.op \in {"tick", "evaluateMarket", "executeBuy"}
           => /\ sweeps' = sweeps
              /\ ledger' = ledger \/ AppendedOne(ledger, ledger', "buy")
              /\ \A w \in Windows :
                     hasResolution(ledger', w) = hasResolution(ledger, w)]_vars

C29_Witness ==
    /\ lastCall.op = "sweep"
    /\ lastCall.step = "fetch"
    /\ lastCall.logged
    /\ hasBoughtSlug(ledger, lastCall.slug)
    /\ ledger[Len(ledger)].type = "resolution"
    /\ state.dailyTradeCount > 0
    /\ \E i \in TickIds : ticks[i].pc = "order"

\* C30: the ledger is append-only: a step leaves it as it is or adds one
\* record, a buy or a resolution, at its end, and changes or removes no
\* record it held; so hasBoughtSlug(w) and hasResolution(w), once true,
\* stay true through every later tick, sweep and restart.
C30_LedgerAppendOnly ==
    [][/\ \/ ledger' = ledger
          \/ AppendedOne(ledger, ledger', "buy")
          \/ AppendedOne(ledger, ledger', "resolution")
       /\ \A w \in Windows :
              /\ hasBoughtSlug(ledger, w) => hasBoughtSlug(ledger', w)
              /\ hasResolution(ledger, w) => hasResolution(ledger', w)]_vars

C30_Witness ==
    /\ lastCall.op = "restart"
    /\ Len(ledger) >= 3
    /\ \E w \in Windows :
           /\ ledger[1] = ResolutionEntry(w, "Up")
           /\ ledger[2].type = "buy"
           /\ ledger[2].slug = w
           /\ hasBoughtSlug(ledger, w)
           /\ hasResolution(ledger, w)

(* How many entries of a list of timestamps equal v, and how many are      *)
(* later than lo                                                           *)
Mult(list, v) == Cardinality({ k \in 1 .. Len(list) : list[k] = v })

CountSince(list, lo) == Cardinality({ k \in 1 .. Len(list) : list[k] > lo })

(* The step runs the day-rollover reset or the full reset *)
ClearsHourly ==
    \/ lastCall'.op = "resetState"
    \/ /\ lastCall'.op \in {"checkPreTrade", "getGuardrailState"}
       /\ UtcDay(now) # state.lastResetDay

----------------------------------------------------------------------------
(* Properties of the redemption sweeper *)

(* The sweep in slot j has a call of factory.proxy under way or answered   *)
(* for the pair it is at                                                   *)
ProxyCalled(sl) == sl.pc \in {"submit", "wait", "poll"}

(* The (window, token) pair a sweep is at; a sweep that is not in the      *)
(* token loop is at no pair                                                *)
PairOf(sl) ==
    IF sl.pc \in {"balance", "submit", "wait", "poll"} THEN <<sl.i, sl.k>>
    ELSE <<0, 0>>

PairBefore(p, q) == p[1] < q[1] \/ (p[1] = q[1] /\ p[2] < q[2])

\* C11: within one invocation of the sweep each (window, token) pair is
\* read once, factory.proxy is called exactly once for a pair whose
\* balance read is positive, right after that read, and it is not called
\* for a pair whose balance is zero or whose read failed.
C11_OneRedemptionPerPair ==
    [][\A j \in SweepIds :
          LET sl == sweeps[j]
              sl2 == sweeps'[j]
          IN  /\ (ProxyCalled(sl2) /\ ~ProxyCalled(sl))
                     => /\ sl.pc = "balance"
                        /\ PairOf(sl2) = PairOf(sl)
                        /\ lastCall'.op = "sweep"
                        /\ lastCall'.step = "balance"
                        /\ lastCall'.read = "positive"
              /\ (sl.pc = "balance" /\ sl2 # sl /\ lastCall'.op = "sweep")
                     => (ProxyCalled(sl2) <=> lastCall'.read = "positive")
              /\ (ProxyCalled(sl) /\ ProxyCalled(sl2))
                     => PairOf(sl2) = PairOf(sl)
              /\ (PairOf(sl) # <<0, 0>> /\ PairOf(sl2) # PairOf(sl)
                                        /\ PairOf(sl2) # <<0, 0>>)
                     => PairBefore(PairOf(sl), PairOf(sl2))]_vars

C11_Witness ==
    /\ lastCall.op = "sweep"
    /\ lastCall.step = "balance"
    /\ lastCall.read = "positive"
    /\ \E j \in SweepIds :
           /\ sweeps[j].pc = "submit"
           /\ sweeps[j].k = 2
           /\ sweeps[j].redeemed = 1

\* C19: if the signer's native-gas balance is below the threshold or
\* cannot be read at the start of a sweep, the sweep is a no-op: it ends
\* there without fetching a market, appending a resolution fact or
\* submitting a redemption; a sweep reaches its first market fetch only
\* from a gas balance that was read and is sufficient.
C19_LowGasSweepIsNoOp ==
    [][\A j \in SweepIds :
          LET sl == sweeps[j]
              sl2 == sweeps'[j]
          IN  /\ (/\ sl.pc = "gas"
                  /\ sl2 # sl
                  /\ lastCall'.op = "sweep"
                  /\ lastCall'.gas # "ok")
                     => (sl2 = IdleSweep /\ ledger' = ledger)
              /\ (sl2.pc # "idle" /\ sl.pc \in {"idle", "gas"})
                     => \/ (sl.pc = "idle" /\ sl2.pc = "gas"
                                           /\ ledger' = ledger)
                        \/ sl2 = sl
                        \/ (sl.pc = "gas" /\ sl2.pc = "fetch"
                                          /\ lastCall'.gas = "ok"
                                          /\ ledger' = ledger)]_vars

C19_Witness ==
    /\ lastCall.op = "sweep"
    /\ lastCall.step = "gas"
    /\ lastCall.gas = "error"
    /\ ledger = <<>>
    /\ \A j \in SweepIds : sweeps[j].pc = "idle"

\* C20: when a redemption submission or its confirmation fails with an
\* error recognised as "insufficient funds", the sweep stops at once: it
\* scans no later window or token, submits no further redemption and
\* appends no further resolution fact.
C20_InsufficientFundsStops ==
    [][\A j \in SweepIds :
          (/\ sweeps[j].pc \in {"submit", "wait"}
           /\ sweeps'[j] # sweeps[j]
           /\ lastCall'.op = "sweep"
           /\ lastCall'.answer = "insufficient funds")
              => (sweeps'[j] = IdleSweep /\ ledger' = ledger)]_vars

\* C20 (amended): when a redemption submission fails with an error
\* recognised as "insufficient funds", the sweep stops at once, scanning
\* no later window or token and appending nothing more; an error of the
\* confirmation, whatever its text, does not stop the sweep: it leads to
\* the next wait attempt or to the receipt poll for the same pair.
C20_SubmissionInsufficientFundsStops ==
    [][\A j \in SweepIds :
          LET sl == sweeps[j]
              sl2 == sweeps'[j]
              acts == sl2 # sl /\ lastCall'.op = "sweep"
          IN  /\ (/\ sl.pc = "submit"
                  /\ acts
                  /\ lastCall'.answer = "insufficient funds")
                     => (sl2 = IdleSweep /\ ledger' = ledger)
              /\ (sl.pc = "wait" /\ acts /\ lastCall'.answer \in WaitThrown)
                     => /\ sl2.pc \in {"wait", "poll"}
                        /\ <<sl2.i, sl2.k>> = <<sl.i, sl.k>>
                        /\ sl2.redeemed = sl.redeemed
                        /\ ledger' = ledger]_vars

C20_Witness ==
    /\ lastCall.op = "sweep"
    /\ lastCall.step = "submit"
    /\ lastCall.answer = "insufficient funds"
    /\ lastCall.at = <<1, 1>>
    /\ \A j \in SweepIds : sweeps[j].pc = "idle"
    /\ \A w \in Windows : w # ScanWindow(1) => ~hasResolution(ledger, w)

(* The sweep sl2 is where the sweep sl is once it has left its pair (or   *)
(* its window, when it is at no token): at the next token of the window,   *)
(* at the next window after the last token, over after the last window     *)
MovesOn(sl, sl2) ==
    IF sl.k < sl.ntok
    THEN /\ sl2.pc = "balance"
         /\ <<sl2.i, sl2.k, sl2.ntok>> = <<sl.i, sl.k + 1, sl.ntok>>
    ELSE IF sl.i < ScanCount
    THEN /\ sl2.pc = "fetch"
         /\ sl2.i = sl.i + 1
    ELSE sl2 = IdleSweep

\* C21: a failure in a sweep other than "insufficient funds" (the market
\* fetch fails or its token list cannot be parsed, a balance read fails,
\* a redemption submission fails, the receipt says reverted) does not end
\* the sweep: it goes on with the next token of the window, or with the
\* next window after the last token, counting nothing; a sweep past its
\* gas check ends only after the last token of the last window or by an
\* "insufficient funds" answer to a submission.
C21_FailureDoesNotEndSweep ==
    [][\A j \in SweepIds :
          LET sl == sweeps[j]
              sl2 == sweeps'[j]
              acts == sl2 # sl /\ lastCall'.op = "sweep"
              kept == sl2 # IdleSweep => sl2.redeemed = sl.redeemed
          IN  /\ (sl.pc = "fetch" /\ acts /\ sl2.pc # "balance")
                     => (MovesOn(sl, sl2) /\ kept)
              /\ (sl.pc = "balance" /\ acts /\ lastCall'.read = "error")
                     => (MovesOn(sl, sl2) /\ kept)
              /\ (sl.pc = "submit" /\ acts /\ lastCall'.answer = "error")
                     => (MovesOn(sl, sl2) /\ kept)
              /\ (sl.pc \in {"wait", "poll"} /\ acts
                                             /\ lastCall'.answer = "status0")
                     => (MovesOn(sl, sl2) /\ kept)
              /\ (sl.pc \notin {"idle", "gas"} /\ acts /\ sl2 = IdleSweep)
                     => \/ (sl.i = ScanCount /\ sl.k = sl.ntok)
                        \/ (sl.pc = "submit"
                               /\ lastCall'.answer = "insufficient funds")]_vars

C21_Witness ==
    /\ lastCall.op = "sweep"
    /\ lastCall.step \in {"wait", "poll"}
    /\ lastCall.answer = "status0"
    /\ \E j \in SweepIds :
           /\ sweeps[j].pc = "balance"
           /\ sweeps[j].k = 2
           /\ sweeps[j].redeemed = 0

\* C22: once a redemption is submitted, the sweep counts it exactly when
\* the receipt says success or no receipt could be obtained; a receipt
\* that says reverted is not counted; in each case the sweep goes on with
\* the next token, and an error of the wait counts nothing.
C22_CountedIffSuccessOrNoReceipt ==
    [][\A j \in SweepIds :
          LET sl == sweeps[j]
              sl2 == sweeps'[j]
              acts == sl2 # sl /\ lastCall'.op = "sweep"
              rc == lastCall'.receipt
          IN  (sl.pc \in {"wait", "poll"} /\ acts)
                 => IF sl2 # IdleSweep /\ sl2.pc \in {"wait", "poll"}
                    THEN /\ rc = "pending"
                         /\ ~lastCall'.counted
                         /\ sl2.redeemed = sl.redeemed
                    ELSE /\ rc \in {"status1", "status0", "null"}
                         /\ lastCall'.counted <=> rc \in {"status1", "null"}
                         /\ MovesOn(sl, sl2)
                         /\ sl2 # IdleSweep =>
                                sl2.redeemed = sl.redeemed +
                                    (IF lastCall'.counted THEN 1 ELSE 0)]_vars

C22_Witness ==
    /\ lastCall.op = "sweep"
    /\ lastCall.step = "poll"
    /\ lastCall.answer = "null"
    /\ lastCall.counted
    /\ \E j \in SweepIds :
           /\ sweeps[j].pc = "balance"
           /\ sweeps[j].k = 2
           /\ sweeps[j].redeemed = 1

\* C23: waitForTx makes at most three calls of tx.wait and returns the
\* first receipt one of them answers; only after the third has thrown does
\* it poll getTransactionReceipt, once, and it returns that receipt if it
\* is mined and no receipt if the poll throws, answers null or answers a
\* receipt without a block; there is no fourth wait and no second poll.
C23_BoundedConfirmation ==
    [][\A j \in SweepIds :
          LET sl == sweeps[j]
              sl2 == sweeps'[j]
              acts == sl2 # sl /\ lastCall'.op = "sweep"
              a == lastCall'.answer
          IN  /\ (sl.pc = "wait" /\ acts)
                     => /\ sl.attempt < 3
                        /\ IF a \in WaitThrown
                           THEN /\ lastCall'.receipt = "pending"
                                /\ sl2 = IF sl.attempt < 2
                                         THEN [sl EXCEPT !.attempt = @ + 1]
                                         ELSE [sl EXCEPT !.pc = "poll"]
                           ELSE /\ lastCall'.receipt = a
                                /\ MovesOn(sl, sl2)
              /\ (sl2.pc = "poll" /\ sl.pc # "poll")
                     => /\ sl.pc = "wait"
                        /\ sl.attempt = 2
                        /\ a \in WaitThrown
              /\ (sl2.pc = "wait" /\ sl.pc # "wait")
                     => (sl.pc = "submit" /\ sl2.attempt = 0)
              /\ (sl.pc = "poll" /\ acts)
                     => /\ MovesOn(sl, sl2)
                        /\ lastCall'.receipt =
                               (IF a \in {"status1", "status0"} THEN a
                                ELSE "null")]_vars

C23_Witness ==
    /\ lastCall.op = "sweep"
    /\ lastCall.step = "poll"
    /\ lastCall.answer = "unmined"
    /\ lastCall.receipt = "null"
    /\ \E j \in SweepIds :
           /\ sweeps[j].pc = "balance"
           /\ sweeps[j].k = 2

\* C24: every external call of a sweep is bounded, so a sweep that has
\* started eventually finishes even if one of its calls never returns.
C24_SweepFinishes ==
    \A j \in SweepIds : (sweeps[j].pc # "idle") ~> (sweeps[j].pc = "idle")

----------------------------------------------------------------------------
(* Properties of the strategy evaluator and of the tick driver *)

\* C12: evaluateMarket has no side effects: a call changes no field of
\* the guardrail state and no ledger entry, whatever the current time is.
C12_EvaluateMarketPure ==
    [][lastCall'.op = "evaluateMarket"
          => (state' = state /\ ledger' = ledger)]_vars

----------------------------------------------------------------------------
(* The strategy functions called directly on snapshots and positions *)

StrategyConfigs ==
    { [c EXCEPT !.takeProfitPct = tp] :
          c \in {k \in Configs : k.enabled /\ k.dryRun},
          tp \in {80, UnreachableTakeProfit} }

ExitMarkets ==
    { MkMarket(1, secs, up, 100 - up, FALSE) :
          secs \in {30, 59, 60, 540}, up \in {40, 62, 68, 90, 95, 100} }

ExitPositions ==
    { MkPosition(w, o, price, size) :
          w \in 1 .. 2, o \in {"Up", "Down"}, price \in {50, 62},
          size \in {10, 16} }

InitStrategy ==
    /\ now = StartTime
    /\ state = createFreshState(StartTime)
    /\ ledger = <<>>
    /\ config \in StrategyConfigs
    /\ ticks = [i \in TickIds |-> IdleTick]
    /\ orders = [w \in Windows |-> 0]
    /\ sweeps = [j \in SweepIds |-> IdleSweep]
    /\ lastCall = [op |-> "init"]
    /\ succeeded = {}
    /\ service = Started

ApiEvaluateExit(market, position) ==
    /\ lastCall' = [op |-> "evaluateExit", market |-> market,
                    position |-> position,
                    signal |-> evaluateExit(market, position, config),
                    holdOnly |-> evaluateExitHoldOnly(market, position,
                                                      config)]
    /\ UNCHANGED <<now, state, ledger, config, ticks, orders, sweeps,
                   succeeded, service>>

NextStrategy ==
    \E market \in ExitMarkets, position \in ExitPositions :
        ApiEvaluateExit(market, position)

SpecStrategy == InitStrategy /\ [][NextStrategy]_vars

(* The unrealized gain of a position at the snapshot's price of its token, *)
(* in cents; 0 when the token is not in the snapshot                       *)
GainOf(market, position) ==
    IF FindHeld(market, position.tokenId) = {} THEN 0
    ELSE market.outcomes[Min(FindHeld(market, position.tokenId))].price
             * position.size - position.costBasis

Unreachable ==
    /\ config.takeProfitPct = UnreachableTakeProfit
    /\ \A market \in ExitMarkets, position \in ExitPositions :
           GainOf(market, position) * 100
               < config.takeProfitPct * position.costBasis

\* C13: with a take-profit threshold that no unrealized gain can reach,
\* the take-profit exit evaluator never returns SELL and returns HOLD
\* exactly where the hold-only evaluator returns HOLD.
C13_UnreachableIsHoldOnly ==
    (lastCall.op = "evaluateExit" /\ Unreachable)
        => /\ lastCall.signal.signal # "SELL"
           /\ lastCall.signal.signal = "HOLD"
                  <=> lastCall.holdOnly.signal = "HOLD"

\* C13 (amended): with a take-profit threshold that no unrealized gain can
\* reach, the take-profit exit evaluator returns SELL exactly when the
\* held token is in the snapshot, less than one minute remains and the
\* unrealized gain exceeds 10% of the cost basis (the near-expiry profit
\* lock); in every other case it returns HOLD, as the hold-only evaluator
\* does for every input.
C13_HoldOnlyExceptNearExpiry ==
    (lastCall.op = "evaluateExit" /\ Unreachable)
        => LET m == lastCall.market
               p == lastCall.position
               lock == /\ FindHeld(m, p.tokenId) # {}
                       /\ m.secondsRemaining < 60
                       /\ GainOf(m, p) * 10 > p.costBasis
           IN  /\ lastCall.holdOnly.signal = "HOLD"
               /\ lastCall.signal.signal = IF lock THEN "SELL" ELSE "HOLD"
               /\ lock => lastCall.signal.reason = "NEAR_EXPIRY"

C13_Witness ==
    /\ lastCall.op = "evaluateExit"
    /\ Unreachable
    /\ lastCall.signal.signal = "SELL"
    /\ lastCall.holdOnly.signal = "HOLD"
    /\ lastCall.market.secondsRemaining = 59

\* C35: exit evaluation returns HOLD when the held token is absent from
\* the snapshot; otherwise, with gain = (current price x size - cost
\* basis) / cost basis, it returns SELL at the held size and the current
\* price exactly when gain >= takeProfitPct, or when less than one minute
\* remains and gain > 10%; in every other case it returns HOLD.
C35_ExitSignal ==
    lastCall.op = "evaluateExit"
        => LET m == lastCall.market
               p == lastCall.position
               sig == lastCall.signal
               present == \E k \in 1 .. Len(m.outcomes) :
                              m.outcomes[k].tokenId = p.tokenId
               target == GainOf(m, p) * 100
                             >= config.takeProfitPct * p.costBasis
               lock == /\ m.secondsRemaining < 60
                       /\ GainOf(m, p) * 10 > p.costBasis
           IN  IF present /\ (target \/ lock)
               THEN /\ sig.signal = "SELL"
                    /\ sig.suggestedSize = p.size
                    /\ sig.outcome.tokenId = p.tokenId
                    /\ sig.suggestedPrice * p.size - p.costBasis
                           = GainOf(m, p)
               ELSE sig.signal = "HOLD"

C35_Witness ==
    /\ lastCall.op = "evaluateExit"
    /\ lastCall.signal.signal = "SELL"
    /\ lastCall.signal.reason = "TAKE_PROFIT"
    /\ lastCall.market.secondsRemaining >= 60
    /\ GainOf(lastCall.market, lastCall.position) * 100
           = config.takeProfitPct * lastCall.position.costBasis

----------------------------------------------------------------------------
(* Properties of the tick driver's error handling *)

\* C14: when the order submission made during a tick fails with an error
\* whose message contains "insufficient" or "balance", the killswitch is
\* active when that tick ends.
C14_BalanceErrorKills ==
    [][(/\ lastCall'.op = "executeBuy"
        /\ lastCall'.phase = "finish"
        /\ lastCall'.resp = "insufficient")
           => state'.killswitch]_vars


\* C15: a tick on which the strategy evaluator returns SELL passes the
\* signal to executeSell; in dry-run mode the sell succeeds, so when such
\* a tick ends the position of that market is closed in the guardrail
\* state.
C15_SellSignalIsExecuted ==
    [][\A i \in TickIds :
          (/\ ticks[i].pc = "balance"
           /\ ticks[i].sig.signal = "SELL"
           /\ config.dryRun
           /\ ticks'[i].pc = "idle"
           /\ lastCall'.op # "restart")
              => ticks[i].mkt.conditionId \notin DOMAIN state'.openPositions]_vars

----------------------------------------------------------------------------
(* Properties of executeBuy, stated on the steps of the tick that runs it *)

(* Tick i runs executeBuy up to the order submission in this step *)
BeginsBuy(i) ==
    /\ ticks[i].pc = "balance"
    /\ ticks'[i] # ticks[i]
    /\ lastCall'.op = "executeBuy"

(* Tick i runs executeBuy from the answer of the order client on *)
FinishesBuy(i) ==
    /\ ticks[i].pc = "order"
    /\ ticks'[i] # ticks[i]
    /\ lastCall'.op = "executeBuy"

CostOf(sig) == sig.suggestedSize * sig.suggestedPrice

(* The guardrail state holds the position of the signal on top of s *)
TradeRecorded(s, s2, sig, mkt) ==
    /\ mkt.conditionId \in DOMAIN s2.openPositions
    /\ s2.openPositions[mkt.conditionId].tokenId = sig.outcome.tokenId
    /\ s2.openPositions[mkt.conditionId].size = sig.suggestedSize
    /\ s2.openPositions[mkt.conditionId].costBasis = CostOf(sig)
    /\ s2.dailyTradeCount = s.dailyTradeCount + 1
    /\ s2.totalExposure = s.totalExposure + CostOf(sig)
    /\ Len(s2.hourlyTrades) = Len(s.hourlyTrades) + 1

BuyFactAppended(led, led2, sig, mkt, orderId) ==
    led2 = Append(led, [type |-> "buy", slug |-> mkt.slug,
                        outcome |-> sig.outcome.outcome,
                        price |-> sig.suggestedPrice,
                        size |-> sig.suggestedSize, cost |-> CostOf(sig),
                        orderId |-> orderId])

\* C16: with dryRun set, the ledger gate passed and the guardrail check
\* passed, executeBuy does not call the order client, records the
\* position in the guardrail state, appends exactly one buy fact whose
\* order identifier is "dry-run" and returns success.
C16_DryRunBuy ==
    [][\A i \in TickIds :
          LET sig == ticks[i].sig
              mkt == ticks[i].mkt
              check == checkPreTrade(state, config, CostOf(sig), now)
          IN  (/\ BeginsBuy(i)
               /\ config.dryRun
               /\ ~hasBoughtSlug(ledger, mkt.slug)
               /\ check.allowed)
                  => /\ ~lastCall'.submitted
                     /\ orders' = orders
                     /\ ticks'[i].pc = "idle"
                     /\ lastCall'.result.success
                     /\ lastCall'.result.dryRun
                     /\ BuyFactAppended(ledger, ledger', sig, mkt, "dry-run")
                     /\ TradeRecorded(check.state, state', sig, mkt)]_vars

C16_Witness ==
    /\ config.dryRun
    /\ lastCall.op = "executeBuy"
    /\ lastCall.phase = "begin"
    /\ lastCall.result.success
    /\ ledger # <<>>
    /\ ledger[Len(ledger)].orderId = "dry-run"
    /\ \A w \in Windows : orders[w] = 0
    /\ lastCall.slug \in DOMAIN state.openPositions

C18_DenialHasNoEffect ==
    [][\A i \in TickIds :
          LET sig == ticks[i].sig
              mkt == ticks[i].mkt
              check == checkPreTrade(state, config, CostOf(sig), now)
          IN  (/\ BeginsBuy(i)
               /\ ~hasBoughtSlug(ledger, mkt.slug)
               /\ ~check.allowed)
                  => /\ ~lastCall'.result.success
                     /\ lastCall'.result.message = "GUARDRAIL"
                     /\ lastCall'.result.reason = check.reason
                     /\ check.reason # "none"
                     /\ ~lastCall'.submitted
                     /\ orders' = orders
                     /\ ticks'[i].pc = "idle"
                     /\ ledger' = ledger
                     /\ state'.openPositions = state.openPositions
                     /\ state'.totalExposure = state.totalExposure
                     /\ state' = check.state]_vars

C18_Witness ==
    /\ ~config.dryRun
    /\ lastCall.op = "executeBuy"
    /\ lastCall.phase = "begin"
    /\ lastCall.result.reason = "MAX_POSITION"
    /\ CountEntries(ledger, "buy", lastCall.slug) = 0
    /\ orders[lastCall.slug] = 0

----------------------------------------------------------------------------
(* The lookups of the ledger as functions of the file: the file is any     *)
(* sequence of lines, each a buy record, a resolution record, an empty     *)
(* line or text that JSON.parse rejects                                    *)

LedgerLines ==
    { BuyEntry(w, "Up", 62, 16, 992, "dry-run") : w \in Windows }
    \cup { ResolutionEntry(w, "Up") : w \in Windows }
    \cup {EmptyLine, CorruptLine}

LedgerFiles == UNION { [1 .. n -> LedgerLines] : n \in 0 .. MaxLines }

InitLedger ==
    /\ now = StartTime
    /\ state = createFreshState(StartTime)
    /\ ledger \in LedgerFiles
    /\ config \in StrategyConfigs
    /\ ticks = [i \in TickIds |-> IdleTick]
    /\ orders = [w \in Windows |-> 0]
    /\ sweeps = [j \in SweepIds |-> IdleSweep]
    /\ lastCall = [op |-> "init"]
    /\ succeeded = {}
    /\ service = Started

LedgerFrame ==
    UNCHANGED <<now, state, ledger, config, ticks, orders, sweeps,
                succeeded, service>>

ApiHasBoughtSlug(slug) ==
    /\ lastCall' = [op |-> "hasEntry", type |-> "buy", slug |-> slug,
                    found |-> hasBoughtSlug(ledger, slug)]
    /\ LedgerFrame

ApiHasResolution(slug) ==
    /\ lastCall' = [op |-> "hasEntry", type |-> "resolution", slug |-> slug,
                    found |-> hasResolution(ledger, slug)]
    /\ LedgerFrame

NextLedger ==
    \/ \E slug \in Windows : ApiHasBoughtSlug(slug)
    \/ \E slug \in Windows : ApiHasResolution(slug)

SpecLedger == InitLedger /\ [][NextLedger]_vars

(* The file holds a record of the type for the slug *)
HoldsRecord(lines, type, slug) ==
    \E i \in 1 .. Len(lines) :
        /\ lines[i].type = type
        /\ lines[i].slug = slug

\* C31: hasBoughtSlug(w), and hasResolution(w), answers true exactly when
\* the file holds a buy record, a resolution record, for w; a record of
\* the other kind or of another window never matches, and an empty or an
\* unparseable line does not change the answer.
C31_LookupFindsRecord ==
    lastCall.op = "hasEntry"
        => (lastCall.found
               <=> HoldsRecord(ledger, lastCall.type, lastCall.slug))

----------------------------------------------------------------------------
(* The entry evaluation as a function of the snapshot: the snapshot,      *)
(* drawn in the initial state, has any list of up to MaxOutcomes outcomes  *)
(* and a remaining time on either side of, and on, each bound of the       *)
(* entry window                                                            *)

OutcomeNames == <<"Up", "Down", "Other">>

EntryPrices == {38, 59, 60, 62}

EntrySeconds == {299, 300, 600, 601}

OutcomeLists ==
    UNION { [1 .. n -> EntryPrices] : n \in 0 .. MaxOutcomes }

MkSnapshot(w, secs, prices, closed) ==
    [conditionId |-> w, slug |-> w, secondsRemaining |-> secs,
     outcomes |-> [k \in 1 .. Len(prices) |->
                      [tokenId |-> TokenOf(w, OutcomeNames[k]),
                       outcome |-> OutcomeNames[k],
                       price |-> prices[k]]],
     closed |-> closed]

EntryMarkets ==
    { MkSnapshot(1, secs, prices, closed) :
          secs \in EntrySeconds, prices \in OutcomeLists,
          closed \in BOOLEAN }

EntryConfigs ==
    { [c EXCEPT !.maxOrderSize = m] :
          c \in {k \in Configs : k.enabled /\ k.dryRun},
          m \in {50, 1000} }

InitEntry ==
    /\ now = StartTime
    /\ state = createFreshState(StartTime)
    /\ ledger = <<>>
    /\ config \in EntryConfigs
    /\ ticks = [i \in TickIds |-> IdleTick]
    /\ orders = [w \in Windows |-> 0]
    /\ sweeps = [j \in SweepIds |-> IdleSweep]
    /\ lastCall \in {[op |-> "init", market |-> m] : m \in EntryMarkets}
    /\ succeeded = {}
    /\ service = Started

EntryFrame ==
    UNCHANGED <<now, state, ledger, config, ticks, orders, sweeps,
                succeeded, service>>

ApiEvaluateEntry ==
    /\ lastCall' = [op |-> "evaluateEntry", market |-> lastCall.market,
                    signal |-> evaluateEntry(lastCall.market, config)]
    /\ EntryFrame

ApiGetLeadingOutcome ==
    /\ lastCall' = [op |-> "getLeadingOutcome", market |-> lastCall.market,
                    leader |-> getLeadingOutcome(lastCall.market)]
    /\ EntryFrame

NextEntry ==
    \/ ApiEvaluateEntry
    \/ ApiGetLeadingOutcome

SpecEntry == InitEntry /\ [][NextEntry]_vars

\* C32: entry evaluation returns WAIT for every closed market; for an open
\* market it returns WAIT "too early" exactly when more than
\* entryWindowMinEnd minutes remain and WAIT "too late" exactly when fewer
\* than entryWindowMinStart minutes remain, so a remaining time equal to
\* either bound is inside the window.
C32_EntryWindowInclusive ==
    lastCall.op = "evaluateEntry"
        => LET m == lastCall.market
               sig == lastCall.signal
               early == m.secondsRemaining > 60 * config.entryWindowMinEnd
               late == m.secondsRemaining < 60 * config.entryWindowMinStart
           IN  /\ m.closed => sig.signal = "WAIT"
               /\ ~m.closed =>
                      /\ (sig = Wait("TOO_EARLY")) <=> early
                      /\ (sig = Wait("TOO_LATE")) <=> late

C32_Witness ==
    /\ lastCall.op = "evaluateEntry"
    /\ ~lastCall.market.closed
    /\ lastCall.market.secondsRemaining = 60 * config.entryWindowMinEnd
    /\ lastCall.signal.signal = "BUY"

(* The index of the first outcome with the highest price of a list *)
FirstHighest(outs) ==
    CHOOSE k \in 1 .. Len(outs) :
        /\ \A i \in 1 .. Len(outs) : outs[i].price <= outs[k].price
        /\ \A i \in 1 .. k - 1 : outs[i].price < outs[k].price

\* C33: getLeadingOutcome returns the outcome with the highest price, the
\* first of them in the order of the list when several share that price,
\* and returns none only for an empty list of outcomes.
C33_LeaderIsFirstHighest ==
    lastCall.op = "getLeadingOutcome"
        => LET outs == lastCall.market.outcomes
           IN  IF Len(outs) = 0 THEN lastCall.leader = NoOutcome
               ELSE /\ lastCall.leader # NoOutcome
                    /\ lastCall.leader = outs[FirstHighest(outs)]

C33_Witness ==
    /\ lastCall.op = "getLeadingOutcome"
    /\ Len(lastCall.market.outcomes) = 3
    /\ lastCall.market.outcomes[1].price < lastCall.market.outcomes[2].price
    /\ lastCall.market.outcomes[2].price = lastCall.market.outcomes[3].price
    /\ lastCall.leader = lastCall.market.outcomes[2]

\* C34: inside the entry window of an open market with at least one
\* outcome, entry evaluation returns WAIT when the leader's price is below
\* minEntryPrice or when floor(maxOrderSize / leader price) is zero, and
\* otherwise returns BUY for the leader with suggestedSize =
\* floor(maxOrderSize / leader price) and suggestedPrice = leader price
\* (a price of 62 cents and a maximum order cost of 10 dollars give 16).
C34_BuySizeIsFloor ==
    (/\ lastCall.op = "evaluateEntry"
     /\ ~lastCall.market.closed
     /\ lastCall.market.secondsRemaining >= 60 * config.entryWindowMinStart
     /\ lastCall.market.secondsRemaining <= 60 * config.entryWindowMinEnd
     /\ Len(lastCall.market.outcomes) > 0)
        => LET outs == lastCall.market.outcomes
               leader == outs[FirstHighest(outs)]
               size == config.maxOrderSize \div leader.price
               sig == lastCall.signal
           IN  IF leader.price < config.minEntryPrice \/ size = 0
               THEN sig.signal = "WAIT"
               ELSE /\ sig.signal = "BUY"
                    /\ sig.outcome = leader
                    /\ sig.suggestedSize = size
                    /\ sig.suggestedPrice = leader.price

C34_Witness ==
    /\ lastCall.op = "evaluateEntry"
    /\ config.maxOrderSize = 1000
    /\ lastCall.signal.signal = "BUY"
    /\ lastCall.signal.suggestedPrice = 62
    /\ lastCall.signal.suggestedSize = 16
    /\ lastCall.signal.outcome.outcome = "Up"

----------------------------------------------------------------------------
(* executeSell: src/src/executor.ts, lines 248-301.  The call runs         *)
(* without suspension up to the order submission (executeSellBegin) and,   *)
(* in live mode with a ready client, continues when the order client       *)
(* answers (executeSellFinish).  The ledger is no argument of either.      *)

SellDone(s, res) == [state |-> s, submitted |-> FALSE, result |-> res]

executeSellBegin(s, cfg, sig, mkt, ready) ==
    LET proceeds == sig.suggestedSize * sig.suggestedPrice
    IN  IF sig.suggestedSize = 0 \/ sig.suggestedPrice = 0
        THEN SellDone(s, Failure("INVALID_SIGNAL"))
        ELSE IF cfg.dryRun
        THEN SellDone(recordClose(s, mkt.conditionId, proceeds),
                      Success("DRY_RUN", TRUE))
        ELSE IF ~ready
        THEN SellDone(s, Failure("CLIENT_NOT_READY"))
        ELSE [state |-> s, submitted |-> TRUE, result |-> Failure("PENDING")]

executeSellFinishDelayedCloses(s, sig, mkt, resp) ==
    LET proceeds == sig.suggestedSize * sig.suggestedPrice
    IN  IF resp \in Thrown THEN SellDone(s, Failure("SELL_FAILED"))
        ELSE IF resp \in {"matched", "live"}
        THEN SellDone(recordClose(s, mkt.conditionId, proceeds),
                      Success("SELL_FILLED", FALSE))
        ELSE IF resp = "delayed"
        THEN SellDone(recordClose(s, mkt.conditionId, proceeds),
                      Failure("NOT_FILLED"))
        ELSE SellDone(s, Failure("NOT_FILLED"))

executeSellFinish(s, sig, mkt, resp) ==
    LET proceeds == sig.suggestedSize * sig.suggestedPrice
    IN  IF resp \in Thrown THEN SellDone(s, Failure("SELL_FAILED"))
        ELSE IF resp \in {"matched", "live"}
        THEN SellDone(recordClose(s, mkt.conditionId, proceeds),
                      Success("SELL_FILLED", FALSE))
        ELSE SellDone(s, Failure("NOT_FILLED"))

(* The callers of executeSell: the tick driver never calls it, so the      *)
(* calls come from outside, up to MaxTicks of them in flight at a time.    *)
(* The signals are SELL signals as evaluateExit builds them, and signals   *)
(* without a size or a price.                                              *)
SellSignals ==
    { [signal |-> "SELL",
       outcome |-> [tokenId |-> TokenOf(w, "Up"), outcome |-> "Up",
                    price |-> price],
       reason |-> "TAKE_PROFIT", suggestedSize |-> size,
       suggestedPrice |-> price] :
          w \in Windows, size \in {0, 20}, price \in {0, 10, 95} }

SellMarkets == { MkMarket(w, 30, 95, 5, FALSE) : w \in Windows }

SellFrame == UNCHANGED <<now, ledger, config, orders, sweeps, succeeded,
                         service>>

ExecuteSellBegin(i, sig, mkt, ready) ==
    /\ ticks[i].pc = "idle"
    /\ LET r == executeSellBegin(state, config, sig, mkt, ready)
       IN  /\ state' = r.state
           /\ ticks' = [ticks EXCEPT ![i] =
                           IF r.submitted
                           THEN [pc |-> "sellOrder", signal |-> sig,
                                 market |-> mkt]
                           ELSE IdleTick]
           /\ lastCall' = [op |-> "executeSell", phase |-> "begin",
                           caller |-> i, signal |-> sig, market |-> mkt,
                           resp |-> "none", submitted |-> r.submitted,
                           held |-> mkt.conditionId
                                       \in DOMAIN state.openPositions,
                           result |-> r.result]
    /\ SellFrame

ExecuteSellFinish(i, resp) ==
    /\ ticks[i].pc = "sellOrder"
    /\ LET r == executeSellFinish(state, ticks[i].signal, ticks[i].market,
                                  resp)
       IN  /\ state' = r.state
           /\ ticks' = [ticks EXCEPT ![i] = IdleTick]
           /\ lastCall' = [op |-> "executeSell", phase |-> "finish",
                           caller |-> i, signal |-> ticks[i].signal,
                           market |-> ticks[i].market, resp |-> resp,
                           submitted |-> FALSE,
                           held |-> ticks[i].market.conditionId
                                       \in DOMAIN state.openPositions,
                           result |-> r.result]
    /\ SellFrame

NextSell ==
    \/ \E position \in ApiPositions : ApiRecordTrade(position)
    \/ \E i \in TickIds, sig \in SellSignals, mkt \in SellMarkets,
          ready \in BOOLEAN : ExecuteSellBegin(i, sig, mkt, ready)
    \/ \E i \in TickIds, resp \in Responses : ExecuteSellFinish(i, resp)

SpecSell == InitEnabled /\ [][NextSell]_vars

(* A step in which a call of executeSell returns *)
SellReturns ==
    /\ lastCall' # lastCall
    /\ lastCall'.op = "executeSell"
    /\ ~lastCall'.submitted

\* C36: executeSell succeeds exactly in dry-run, or live with a response
\* of status 'matched' or 'live'; a successful call has run recordClose
\* with proceeds = size x price: afterwards no position exists for the
\* market, and if one existed, exposure is lower by its cost basis and
\* daily P&L higher by proceeds minus cost basis.  A failed call leaves
\* the guardrail state unchanged, and no call reads or writes the ledger.
C36_SellClosesPosition ==
    [][SellReturns =>
          LET c == lastCall'.market.conditionId
              sig == lastCall'.signal
              proceeds == sig.suggestedSize * sig.suggestedPrice
          IN  /\ ledger' = ledger
              /\ lastCall'.result.success
                     <=> /\ sig.suggestedSize # 0 /\ sig.suggestedPrice # 0
                         /\ \/ lastCall'.phase = "begin" /\ config.dryRun
                            \/ lastCall'.phase = "finish"
                                   /\ lastCall'.resp \in {"matched", "live"}
              /\ IF lastCall'.result.success
                 THEN /\ state' = recordClose(state, c, proceeds)
                      /\ c \notin DOMAIN state'.openPositions
                      /\ c \in DOMAIN state.openPositions =>
                             LET pos == state.openPositions[c]
                             IN  /\ state'.totalExposure
                                        = state.totalExposure - pos.costBasis
                                 /\ state'.dailyPnl
                                        = state.dailyPnl + proceeds
                                              - pos.costBasis
                 ELSE state' = state]_vars

C36_Witness ==
    /\ lastCall.op = "executeSell"
    /\ lastCall.phase = "finish"
    /\ lastCall.resp = "live"
    /\ lastCall.result.success
    /\ lastCall.held
    /\ lastCall.market.conditionId \notin DOMAIN state.openPositions
    /\ state.dailyPnl = 900

----------------------------------------------------------------------------
(* The arithmetic of the build: a JavaScript number is an IEEE-754         *)
(* binary64 value, and /, * and the reading of a decimal literal round to  *)
(* the nearest value with a significand of Precision bits, ties to even.   *)
(* A natural number of any size is a sequence of limbs of LimbBits bits,   *)
(* least significant first, without a zero as the last limb; a positive    *)
(* binary64 value is a record [m, e] standing for m * 2^e with m of at     *)
(* most Precision bits.  The values of this model are far from the ends    *)
(* of the exponent range.                                                  *)

LimbBits == 14

Precision == 53

Pow2Table ==
    <<1, 2, 4, 8, 16, 32, 64, 128, 256, 512, 1024, 2048, 4096, 8192, 16384>>

(* 2^k for k from 0 to LimbBits *)
Pow2(k) == Pow2Table[k + 1]

LimbBase == Pow2(LimbBits)

RECURSIVE Trim(_)
Trim(a) ==
    IF Len(a) = 0 THEN <<>>
    ELSE IF a[Len(a)] = 0 THEN Trim(SubSeq(a, 1, Len(a) - 1))
    ELSE a

RECURSIVE FromNat(_)
FromNat(n) ==
    IF n = 0 THEN <<>>
    ELSE <<n % LimbBase>> \o FromNat(n \div LimbBase)

RECURSIVE ToNat(_)
ToNat(a) == IF Len(a) = 0 THEN 0 ELSE Head(a) + LimbBase * ToNat(Tail(a))

Limb(a, i) == IF i >= 1 /\ i <= Len(a) THEN a[i] ELSE 0

RECURSIVE CmpFrom(_, _, _)
CmpFrom(a, b, i) ==
    IF i = 0 THEN 0
    ELSE IF Limb(a, i) > Limb(b, i) THEN 1
    ELSE IF Limb(a, i) < Limb(b, i) THEN -1
    ELSE CmpFrom(a, b, i - 1)

(* -1, 0 or 1 as a is below, equal to or above b *)
Cmp(a, b) == CmpFrom(a, b, IF Len(a) > Len(b) THEN Len(a) ELSE Len(b))

RECURSIVE AddFrom(_, _, _, _)
AddFrom(a, b, i, carry) ==
    IF i > Len(a) /\ i > Len(b)
    THEN IF carry = 0 THEN <<>> ELSE <<carry>>
    ELSE LET t == Limb(a, i) + Limb(b, i) + carry
         IN  <<t % LimbBase>> \o AddFrom(a, b, i + 1, t \div LimbBase)

Add(a, b) == Trim(AddFrom(a, b, 1, 0))

RECURSIVE SubFrom(_, _, _, _)
SubFrom(a, b, i, borrow) ==
    IF i > Len(a) THEN <<>>
    ELSE LET t == Limb(a, i) - Limb(b, i) - borrow
         IN  <<IF t < 0 THEN t + LimbBase ELSE t>>
                 \o SubFrom(a, b, i + 1, IF t < 0 THEN 1 ELSE 0)

(* a - b for a >= b *)
Sub(a, b) == Trim(SubFrom(a, b, 1, 0))

RECURSIVE MulLimbFrom(_, _, _, _)
MulLimbFrom(a, d, i, carry) ==
    IF i > Len(a)
    THEN IF carry = 0 THEN <<>> ELSE <<carry>>
    ELSE LET t == a[i] * d + carry
         IN  <<t % LimbBase>> \o MulLimbFrom(a, d, i + 1, t \div LimbBase)

(* a times the limb d *)
MulLimb(a, d) == Trim(MulLimbFrom(a, d, 1, 0))

RECURSIVE MulFrom(_, _, _)
MulFrom(a, b, j) ==
    IF j > Len(b) THEN <<>>
    ELSE AddFrom(MulLimbFrom(a, b[j], 1, 0), <<0>> \o MulFrom(a, b, j + 1),
                 1, 0)

Mul(a, b) == Trim(MulFrom(a, b, 1))

BitsOfLimb(d) == Cardinality({ k \in 0 .. LimbBits - 1 : Pow2(k) <= d })

BitLen(a) ==
    IF Len(a) = 0 THEN 0
    ELSE LimbBits * (Len(a) - 1) + BitsOfLimb(a[Len(a)])

(* Bit i of a, bit 0 being the least significant *)
Bit(a, i) == (Limb(a, i \div LimbBits + 1) \div Pow2(i % LimbBits)) % 2

(* a * 2^k *)
ShiftLeft(a, k) ==
    LET w == k \div LimbBits
        p == Pow2(k % LimbBits)
    IN  Trim([i \in 1 .. Len(a) + w + 1 |->
                 IF i <= w THEN 0
                 ELSE ((Limb(a, i - w) * p) % LimbBase)
                          + ((Limb(a, i - w - 1) * p) \div LimbBase)])

(* floor(a / 2^k) *)
ShiftRight(a, k) ==
    LET w == k \div LimbBits
        b == k % LimbBits
    IN  IF Len(a) <= w THEN <<>>
        ELSE Trim([i \in 1 .. Len(a) - w |->
                      (Limb(a, i + w) \div Pow2(b))
                          + ((Limb(a, i + w + 1) % Pow2(b))
                                 * Pow2(LimbBits - b))])

(* The largest limb c2 <= c with d * c2 <= r *)
RECURSIVE FitDigit(_, _, _)
FitDigit(d, r, c) ==
    IF Cmp(MulLimb(d, c), r) <= 0 THEN c ELSE FitDigit(d, r, c - 1)

(* Long division by d, whose last limb has its highest bit set, over the   *)
(* limbs of a from the most significant one; q and r are the quotient and  *)
(* the remainder of the part of a taken so far.  The quotient limb is      *)
(* estimated from the two highest limbs of the remainder and lowered       *)
(* until it fits.                                                          *)
RECURSIVE DivLimbs(_, _, _, _, _)
DivLimbs(a, d, j, q, r) ==
    IF j = 0 THEN [q |-> Trim(q), r |-> r]
    ELSE LET r1 == Trim(<<a[j]>> \o r)
             est == (Limb(r1, Len(d) + 1) * LimbBase + Limb(r1, Len(d)))
                        \div d[Len(d)]
             digit == FitDigit(d, r1,
                               IF est >= LimbBase THEN LimbBase - 1 ELSE est)
             r2 == Sub(r1, MulLimb(d, digit))
         IN  IF digit >= 0 /\ Len(r2) >= 0
             THEN DivLimbs(a, d, j - 1, <<digit>> \o q, r2)
             ELSE [q |-> q, r |-> r]

(* Quotient of a by d > 0, and whether a remainder is left *)
DivMod(a, d) ==
    LET s == LimbBits - BitsOfLimb(d[Len(d)])
        a2 == ShiftLeft(a, s)
        qr == DivLimbs(a2, ShiftLeft(d, s), Len(a2), <<>>, <<>>)
    IN  [q |-> qr.q, exact |-> Len(qr.r) = 0]

(* m * 2^e rounded to Precision bits, to nearest, ties to even *)
Round(m, e) ==
    IF BitLen(m) <= Precision THEN [m |-> m, e |-> e]
    ELSE LET d == BitLen(m) - Precision
             q == ShiftRight(m, d)
             sticky == \E i \in 0 .. d - 2 : Bit(m, i) = 1
             up == Bit(m, d - 1) = 1 /\ (sticky \/ Bit(q, 0) = 1)
         IN  [m |-> IF up THEN Add(q, <<1>>) ELSE q, e |-> e + d]

FromInt(n) == [m |-> FromNat(n), e |-> 0]

(* x / y: the quotient of the significands is taken with three bits more  *)
(* than Precision and a last bit that tells whether a remainder was left  *)
FDiv(x, y) ==
    LET k == Precision + 3 + BitLen(y.m) - BitLen(x.m)
        qr == DivMod(ShiftLeft(x.m, k), y.m)
    IN  Round(Add(ShiftLeft(qr.q, 1), IF qr.exact THEN <<>> ELSE <<1>>),
              x.e - y.e - k - 1)

FMul(x, y) == Round(Mul(x.m, y.m), x.e + y.e)

(* Math.floor of a positive value below 2^31, as a natural number *)
FFloor(x) ==
    IF x.e >= 0 THEN ToNat(ShiftLeft(x.m, x.e))
    ELSE ToNat(ShiftRight(x.m, -x.e))

(* -1, 0 or 1 as x is below, equal to or above y *)
FCmp(x, y) ==
    LET e == IF x.e < y.e THEN x.e ELSE y.e
    IN  Cmp(ShiftLeft(x.m, x.e - e), ShiftLeft(y.m, y.e - e))

(* The number that JSON.parse and parseFloat read from the decimal text   *)
(* of c hundredths: the binary64 value nearest to c / 100                 *)
Decimal(c) == FDiv(FromInt(c), FromInt(100))

----------------------------------------------------------------------------
(* The size of a BUY and the per-order cap in the arithmetic of the build. *)
(* Prices and the cap are held in hundredths, as the decimal texts of the  *)
(* price feed and of the configuration give them; the quotient, its floor  *)
(* and the product are binary64 values.                                    *)

(* strategy.ts, line 91: Math.floor(config.maxOrderSize / pricePerShare)   *)
maxSharesOf(maxOrderSize, pricePerShare) ==
    FFloor(FDiv(Decimal(maxOrderSize), Decimal(pricePerShare)))

evaluateEntryBinary64(market, cfg) ==
    IF market.closed THEN Wait("CLOSED")
    ELSE IF ~isInEntryWindow(market, cfg.entryWindowMinStart,
                             cfg.entryWindowMinEnd)
    THEN IF market.secondsRemaining > 60 * cfg.entryWindowMinEnd
         THEN Wait("TOO_EARLY")
         ELSE Wait("TOO_LATE")
    ELSE LET leader == getLeadingOutcome(market)
         IN  IF leader = NoOutcome THEN Wait("NO_OUTCOMES")
             ELSE IF leader.price < cfg.minEntryPrice
             THEN Wait("BELOW_MIN_ENTRY")
             ELSE LET maxShares == maxSharesOf(cfg.maxOrderSize, leader.price)
                  IN  IF maxShares <= 0 THEN Wait("ORDER_TOO_SMALL")
                      ELSE [signal |-> "BUY", outcome |-> leader,
                            reason |-> "ENTRY",
                            suggestedSize |-> maxShares,
                            suggestedPrice |-> leader.price]

(* executor.ts, line 43: signal.suggestedSize * signal.suggestedPrice *)
orderCostOf(sig) ==
    FMul(FromInt(sig.suggestedSize), Decimal(sig.suggestedPrice))

(* checkPreTrade with the order cost as executeBuy computes it; the        *)
(* comparison with the per-order cap is the one of binary64 values         *)
checkPreTradeBinary64(s, cfg, sig, t) ==
    LET s2 == pruneHourlyTrades(maybeResetDaily(s, t), t)
        cost == sig.suggestedSize * sig.suggestedPrice
    IN  IF s2.killswitch THEN Denied(s2, "KILLSWITCH")
        ELSE IF ~cfg.enabled THEN Denied(s2, "DISABLED")
        ELSE IF FCmp(orderCostOf(sig), Decimal(cfg.maxOrderSize)) > 0
             THEN Denied(s2, "ORDER_SIZE")
        ELSE IF s2.totalExposure + cost > cfg.maxPositionSize
             THEN Denied(s2, "MAX_POSITION")
        ELSE IF Abs(s2.dailyPnl) >= cfg.maxDailyLoss /\ s2.dailyPnl < 0
             THEN Denied(s2, "DAILY_LOSS")
        ELSE IF Len(s2.hourlyTrades) >= cfg.maxTradesPerHour
             THEN Denied(s2, "HOURLY_LIMIT")
        ELSE [state |-> s2, allowed |-> TRUE, reason |-> "none"]

(* executeBuy in dry-run mode *)
executeBuyBinary64(led, s, cfg, sig, mkt, t) ==
    LET check == checkPreTradeBinary64(s, cfg, sig, t)
    IN  IF sig.suggestedSize = 0 \/ sig.suggestedPrice = 0
        THEN Done(led, s, Failure("INVALID_SIGNAL"))
        ELSE IF hasBoughtSlug(led, mkt.slug)
        THEN Done(led, s, Failure("ALREADY_BOUGHT"))
        ELSE IF ~check.allowed
        THEN Done(led, check.state, GuardrailBlocked(check.reason))
        ELSE Done(logBuy(led, mkt.slug, sig.outcome.outcome,
                         sig.suggestedPrice, sig.suggestedSize,
                         sig.suggestedSize * sig.suggestedPrice, "dry-run"),
                  recordTrade(check.state, PositionOf(sig, mkt), t),
                  Success("DRY_RUN", TRUE))

OrderCaps == {780, 1000, 5100}

CapPrices == 60 .. 80

CapConfigs ==
    { [c EXCEPT !.maxOrderSize = m, !.maxPositionSize = 2 * m] :
          c \in {k \in Configs : k.enabled /\ k.dryRun}, m \in OrderCaps }

CapMarkets ==
    { MkSnapshot(1, 420, <<p, 100 - p>>, FALSE) : p \in CapPrices }

InitCap ==
    /\ now = StartTime
    /\ state = createFreshState(StartTime)
    /\ ledger = <<>>
    /\ config \in CapConfigs
    /\ ticks = [i \in TickIds |-> IdleTick]
    /\ orders = [w \in Windows |-> 0]
    /\ sweeps = [j \in SweepIds |-> IdleSweep]
    /\ lastCall \in {[op |-> "init", market |-> m] : m \in CapMarkets}
    /\ succeeded = {}
    /\ service = Started

CapEvaluateEntry ==
    /\ lastCall' = [op |-> "evaluateEntry", market |-> lastCall.market,
                    signal |-> evaluateEntryBinary64(lastCall.market,
                                                     config)]
    /\ UNCHANGED <<now, state, ledger, config, ticks, orders, sweeps,
                   succeeded, service>>

CapExecuteBuy ==
    /\ lastCall.op = "evaluateEntry"
    /\ lastCall.signal.signal = "BUY"
    /\ LET r == executeBuyBinary64(ledger, state, config, lastCall.signal,
                                   lastCall.market, now)
       IN  /\ state' = r.state
           /\ ledger' = r.ledger
           /\ lastCall' = [op |-> "executeBuy", market |-> lastCall.market,
                           signal |-> lastCall.signal, result |-> r.result]
    /\ UNCHANGED <<now, config, ticks, orders, sweeps, succeeded, service>>

NextCap ==
    \/ CapEvaluateEntry
    \/ CapExecuteBuy

SpecCap == InitCap /\ [][NextCap]_vars

\* C40: every BUY signal of entry evaluation has suggestedSize >= 1 and
\* suggestedSize x suggestedPrice <= config.maxOrderSize, so the per-order
\* cap check of checkPreTrade never denies a BUY that the strategy
\* generated under the same config.
C40_BuyWithinOrderCap ==
    /\ (lastCall.op = "evaluateEntry" /\ lastCall.signal.signal = "BUY")
           => /\ lastCall.signal.suggestedSize >= 1
              /\ FCmp(orderCostOf(lastCall.signal),
                      Decimal(config.maxOrderSize)) <= 0
    /\ lastCall.op = "executeBuy"
           => lastCall.result.reason # "ORDER_SIZE"

====
